---- MODULE Spec2Model ----
(***************************************************************************)
(* Model of the batch summarisation pipeline of LLMs-Generator:            *)
(* llms_gen_agent/sub_agents/doc_summariser (agent.py, tools.py) and the   *)
(* part of llms_gen_agent/config.py that feeds it, with the retry wrapper  *)
(* of common_utils/retry_utils.py, agent.py's clean_json_callback, and the *)
(* section mapping and generate_llms_txt of llms_gen_agent/tools.py.       *)
(*                                                                         *)
(* The ADK session state (tool_context.state, a Python dict) is the        *)
(* variable `state`: a function whose domain is the set of keys present.   *)
(* A file path is a natural number; the corpus of n files is <<1, .., n>>. *)
(* Path 0 is a path that is in no corpus.                                  *)
(***************************************************************************)
EXTENDS Integers, Sequences, FiniteSets, TLC

VARIABLES
    state,          \* tool_context.state: key -> value, only the keys present
    escalate,       \* tool_context.actions.escalate
    response,       \* what the last tool call returned
    raised,         \* the exception that ended the run, "none" while it runs
    last_tool,      \* name of the last tool or model call made
    pc,             \* the agent that runs next
    times_looped,   \* LoopAgent's count of completed iterations
    batch_size,     \* config.batch_size
    loop_exit,      \* how batch_processing_loop ended: none | escalate | ceiling
    created,        \* history: the batches create_file_batches returned
    selected,       \* history: the batches selected so far, in order
    merged,         \* history: the batches whose result was merged, in order
    opened,         \* history: what open() did for each path of the last read_files
    awaiting,       \* the agent at pc has sent its request and awaits the answer
    outstanding,    \* requests sent to the service and not answered yet
    http_attempt,   \* retry_options: the attempt under way of the agent's request
    max_depth,      \* _map_files_to_effective_sections: its max_depth argument
    file_to_effective_section_dir,  \* what _map_files_to_effective_sections returned
    llms_txt,       \* generate_llms_txt: the lines written to llms.txt
    side_effect,    \* retry wrapper: what the wrapped call does, call by call
    attempt_number, \* retry wrapper: tenacity's retry_state.attempt_number
    call_count,     \* retry wrapper: how often the wrapped call was invoked
    slept,          \* retry wrapper: the delays waited so far, in seconds
    backoff,        \* config.backoff_*: the configured BACKOFF_* values
    llm_response,   \* clean_json_callback: the response it is given
    new_response,   \* clean_json_callback: the response it returns
    environ,        \* os.environ: name -> value, only the variables that are set
    agent_name,     \* config.py: the module's agent_name, read when it is imported
    current_config, \* config.py: the module's current_config
    auth_default_calls, \* history: how often google.auth.default has been called
    config_result   \* history: what the last setup_config call did and returned

retry_vars == <<side_effect, attempt_number, call_count, slept, backoff>>

callback_vars == <<llm_response, new_response>>

call_vars == <<awaiting, outstanding, http_attempt>>

render_vars == <<max_depth, file_to_effective_section_dir, llms_txt>>

config_vars == <<environ, agent_name, current_config, auth_default_calls, config_result>>

vars == <<state, escalate, response, raised, last_tool, pc, times_looped,
          batch_size, loop_exit, created, selected, merged, opened,
          call_vars, retry_vars, callback_vars, render_vars, config_vars>>

-----------------------------------------------------------------------------
(* Bounds of the exploration.                                              *)

\* corpora of 0..MaxFiles files are explored with every batch size and every
\* service response
MaxFiles == 3
\* positive batch sizes 1..MaxBatchSize
MaxBatchSize == 2
\* non-positive batch sizes -MaxNonPositive..0
MaxNonPositive == 1
\* corpora of up to max_iterations + MaxOver files with batch size 1 reach
\* the iteration ceiling
MaxOver == 1
\* the tools called on their own are given states over 1..MaxToolFiles
MaxToolFiles == 2
\* and a loop_iteration of 0..MaxToolIteration
MaxToolIteration == 1
\* the wrapped call of the retry wrapper is given MaxSideEffects outcomes
MaxSideEffects == 6
\* the texts given to clean_json_callback have up to MaxTextLen characters
MaxTextLen == 6
\* generate_llms_txt is given up to MaxDocFiles discovered files
MaxDocFiles == 3
\* _map_files_to_effective_sections is called with max_depth in 0..MaxDepth
MaxDepth == 3
MaxAuthCalls == 2

(* Program constants.                                                      *)
DEFAULT_BATCH_SIZE == 10
max_iterations == 200
DEFAULT_BACKOFF_INIT_DELAY == 2
DEFAULT_BACKOFF_ATTEMPTS == 5
DEFAULT_BACKOFF_MAX_DELAY == 60
DEFAULT_BACKOFF_MULTIPLIER == 2
\* retry_utils.py: wait_exponential(multiplier=1, min=4, max=60), whose
\* exp_base is 2, and stop_after_attempt(5)
wait_multiplier == 1
wait_min == 4
wait_max == 60
wait_exp_base == 2
max_attempt_number == 5

-----------------------------------------------------------------------------
(* Python dict and list helpers.                                           *)

\* dict.get(k, d)
Get(d, k, default) == IF k \in DOMAIN d THEN d[k] ELSE default

\* d[k] = v
Put(d, k, v) == [x \in DOMAIN d \cup {k} |-> IF x = k THEN v ELSE d[x]]

\* the dict d restricted to the keys in K
Restrict(d, K) == [x \in DOMAIN d \cap K |-> d[x]]

EmptyDict == [x \in {} |-> x]

\* {**a, **b}, also a.update(b): b's entries win
Update(a, b) == [x \in DOMAIN a \cup DOMAIN b |-> IF x \in DOMAIN b THEN b[x] ELSE a[x]]

Min(a, b) == IF a <= b THEN a ELSE b

Max(a, b) == IF a >= b THEN a ELSE b

\* b ** e
RECURSIVE Pow(_, _)
Pow(b, e) == IF e <= 0 THEN 1 ELSE b * Pow(b, e - 1)

Range(s) == {s[i] : i \in DOMAIN s}

\* the list <<1, .., n>>
Corpus(n) == [i \in 1..n |-> i]

\* the concatenation of the lists of ss, in order (by halves, which keeps
\* the evaluation shallow for a long ss)
RECURSIVE Flatten(_)
Flatten(ss) ==
    IF ss = <<>> THEN <<>>
    ELSE IF Len(ss) = 1 THEN ss[1]
    ELSE LET h == Len(ss) \div 2
         IN  Flatten(SubSeq(ss, 1, h)) \o Flatten(SubSeq(ss, h + 1, Len(ss)))

CeilDiv(n, b) == (n + b - 1) \div b

-----------------------------------------------------------------------------
(* The tools.  Each takes the tool context [state, escalate] and returns    *)
(* the context it leaves, its return value and the exception it raised.    *)

Ctx(st, esc) == [state |-> st, escalate |-> esc]

Returned(st, esc, resp) ==
    [state |-> st, escalate |-> esc, response |-> resp, raised |-> "none"]

Raised(ctx, exc) ==
    [state |-> ctx.state, escalate |-> ctx.escalate, response |-> <<>>, raised |-> exc]

\* range(0, n, B), for B > 0: its k-th element is (k - 1) * B
range_len(n, B) == Cardinality({i \in 0..(n - 1) : i % B = 0})

\* mutant: range(0, len(files) - B + 1, B), which loses a short last batch
chunks_without_remainder(files, B) ==
    [k \in 1..(Len(files) \div B) |->
        SubSeq(files, (k - 1) * B + 1, Min((k - 1) * B + B, Len(files)))]

\* mutant: files[i:i + B + 1], a slice one file too long
chunks_one_too_long(files, B) ==
    [k \in 1..range_len(Len(files), B) |->
        SubSeq(files, (k - 1) * B + 1, Min((k - 1) * B + B + 1, Len(files)))]

\* [files[i:i + B] for i in range(0, len(files), B)]
fixed_width_chunks(files, B) ==
    [k \in 1..range_len(Len(files), B) |->
        SubSeq(files, (k - 1) * B + 1, Min((k - 1) * B + B, Len(files)))]

\* mutant: no check of batch_size; a step that is not positive gives no batch
create_file_batches_unchecked(ctx, B) ==
    LET batches == IF B <= 0 THEN <<>>
                   ELSE fixed_width_chunks(Get(ctx.state, "files", <<>>), B)
    IN  Returned(Put(ctx.state, "batches", batches), ctx.escalate, batches)

\* create_file_batches(tool_context, batch_size): the Batch Scheduler
create_file_batches(ctx, B) ==
    IF B <= 0 THEN Raised(ctx, "ConfigurationError")
    ELSE LET batches == fixed_width_chunks(Get(ctx.state, "files", <<>>), B)
         IN  Returned(Put(ctx.state, "batches", batches), ctx.escalate, batches)

\* the return value of a selection
batch_selected(loop_iteration, current_batch) ==
    [status |-> "batch_selected", loop_iteration |-> loop_iteration,
     files_in_batch |-> Len(current_batch)]

\* mutant: batches.pop() takes the last batch
process_batch_selection_pop_last(ctx) ==
    LET batches == Get(ctx.state, "batches", <<>>)
        loop_iteration == Get(ctx.state, "loop_iteration", 0)
    IN  IF batches = <<>>
        THEN Returned(ctx.state, TRUE, [status |-> "no_more_batches"])
        ELSE LET current_batch == batches[Len(batches)]
                 st1 == Put(ctx.state, "batches", SubSeq(batches, 1, Len(batches) - 1))
                 st2 == Put(st1, "current_batch", current_batch)
                 st3 == Put(st2, "loop_iteration", loop_iteration + 1)
             IN  Returned(st3, ctx.escalate, batch_selected(loop_iteration + 1, current_batch))

\* mutant: the counter is incremented and stored before the queue is looked at
process_batch_selection_counts_first(ctx) ==
    LET batches == Get(ctx.state, "batches", <<>>)
        loop_iteration == Get(ctx.state, "loop_iteration", 0) + 1
        st0 == Put(ctx.state, "loop_iteration", loop_iteration)
    IN  IF batches = <<>>
        THEN Returned(st0, TRUE, [status |-> "no_more_batches"])
        ELSE LET current_batch == Head(batches)
                 st1 == Put(st0, "batches", Tail(batches))
                 st2 == Put(st1, "current_batch", current_batch)
             IN  Returned(st2, ctx.escalate, batch_selected(loop_iteration, current_batch))

\* mutant: `if len(batches) <= 1`, the loop is left with one batch to go
process_batch_selection_exits_early(ctx) ==
    LET batches == Get(ctx.state, "batches", <<>>)
        loop_iteration == Get(ctx.state, "loop_iteration", 0)
    IN  IF Len(batches) <= 1
        THEN Returned(ctx.state, TRUE, [status |-> "no_more_batches"])
        ELSE LET current_batch == Head(batches)
                 st1 == Put(ctx.state, "batches", Tail(batches))
                 st2 == Put(st1, "current_batch", current_batch)
                 st3 == Put(st2, "loop_iteration", loop_iteration + 1)
             IN  Returned(st3, ctx.escalate, batch_selected(loop_iteration + 1, current_batch))

\* mutant: batches[0] is read, not popped: the batch stays in the queue
process_batch_selection_keeps_queue(ctx) ==
    LET batches == Get(ctx.state, "batches", <<>>)
        loop_iteration == Get(ctx.state, "loop_iteration", 0)
    IN  IF batches = <<>>
        THEN Returned(ctx.state, TRUE, [status |-> "no_more_batches"])
        ELSE LET current_batch == Head(batches)
                 st1 == Put(ctx.state, "batches", batches)
                 st2 == Put(st1, "current_batch", current_batch)
                 st3 == Put(st2, "loop_iteration", loop_iteration + 1)
             IN  Returned(st3, ctx.escalate, batch_selected(loop_iteration + 1, current_batch))

\* process_batch_selection(tool_context)
process_batch_selection(ctx) ==
    LET batches == Get(ctx.state, "batches", <<>>)
        loop_iteration == Get(ctx.state, "loop_iteration", 0)
    IN  IF batches = <<>>
        THEN Returned(ctx.state, TRUE, [status |-> "no_more_batches"])
        ELSE LET current_batch == Head(batches)
                 st1 == Put(ctx.state, "batches", Tail(batches))
                 st2 == Put(st1, "current_batch", current_batch)
                 st3 == Put(st2, "loop_iteration", loop_iteration + 1)
             IN  Returned(st3, ctx.escalate, batch_selected(loop_iteration + 1, current_batch))

\* What open(file_path).read() does for one file: "ok", an error read_files
\* names (FileNotFoundError, PermissionError, UnicodeDecodeError) or any other.
ReadOutcomes == {"ok", "named_error", "other_error"}

FileText(outcome) ==
    CASE outcome = "ok" -> "content"
      [] outcome = "named_error" -> "Error: Could not read file."
      [] OTHER -> "Error: An unexpected error occurred."

\* mutant: only the three named errors are caught, any other is raised
read_files_propagates_unexpected(ctx, disk) ==
    LET file_paths == Get(ctx.state, "current_batch", Get(ctx.state, "files", <<>>))
        files_content == [f \in Range(file_paths) |-> FileText(disk[f])]
        failed == \E f \in Range(file_paths) : disk[f] # "ok"
    IN  IF \E f \in Range(file_paths) : disk[f] = "other_error"
        THEN Raised(Ctx(Put(ctx.state, "files_content", EmptyDict), ctx.escalate), "Exception")
        ELSE Returned(Put(ctx.state, "files_content", files_content), ctx.escalate,
                      [status |-> IF failed THEN "warnings" ELSE "success"])

\* mutant: files_content is created once and kept from call to call, and a
\* path it already has is not read again
read_files_keeps_earlier_content(ctx, disk) ==
    LET file_paths == Get(ctx.state, "current_batch", Get(ctx.state, "files", <<>>))
        earlier == Get(ctx.state, "files_content", EmptyDict)
        files_content == Update([f \in Range(file_paths) |-> FileText(disk[f])], earlier)
        failed == \E f \in Range(file_paths) \ DOMAIN earlier : disk[f] # "ok"
    IN  Returned(Put(ctx.state, "files_content", files_content), ctx.escalate,
                 [status |-> IF failed THEN "warnings" ELSE "success"])

\* read_files(tool_context), with `disk` the outcome of reading each path
read_files(ctx, disk) ==
    LET file_paths == Get(ctx.state, "current_batch", Get(ctx.state, "files", <<>>))
        files_content == [f \in Range(file_paths) |-> FileText(disk[f])]
        failed == \E f \in Range(file_paths) : disk[f] # "ok"
    IN  Returned(Put(ctx.state, "files_content", files_content), ctx.escalate,
                 [status |-> IF failed THEN "warnings" ELSE "success"])

\* mutant: a key the accumulator already has keeps its summary
update_summaries_first_write_wins(ctx) ==
    LET batch_summaries_output == Get(ctx.state, "batch_summaries", EmptyDict)
        batch_summaries == Get(batch_summaries_output, "batch_summaries", EmptyDict)
        all_summaries == Get(ctx.state, "all_summaries", EmptyDict)
    IN  Returned(Put(ctx.state, "all_summaries", Update(batch_summaries, all_summaries)),
                 ctx.escalate, [status |-> "success"])

\* mutant: the accumulator is replaced by the batch result instead of updated
update_summaries_replaces_accumulator(ctx) ==
    LET batch_summaries_output == Get(ctx.state, "batch_summaries", EmptyDict)
        batch_summaries == Get(batch_summaries_output, "batch_summaries", EmptyDict)
    IN  Returned(Put(ctx.state, "all_summaries", batch_summaries),
                 ctx.escalate, [status |-> "success"])

\* mutant: the summary of every file of the batch is looked up, KeyError when
\* the result has none for one of them
update_summaries_requires_every_file(ctx) ==
    LET batch_summaries_output == Get(ctx.state, "batch_summaries", EmptyDict)
        batch_summaries == Get(batch_summaries_output, "batch_summaries", EmptyDict)
        all_summaries == Get(ctx.state, "all_summaries", EmptyDict)
    IN  IF Range(Get(ctx.state, "current_batch", <<>>)) \subseteq DOMAIN batch_summaries
        THEN Returned(Put(ctx.state, "all_summaries", Update(all_summaries, batch_summaries)),
                      ctx.escalate, [status |-> "success"])
        ELSE Raised(ctx, "KeyError")

\* update_summaries(tool_context)
update_summaries(ctx) ==
    LET batch_summaries_output == Get(ctx.state, "batch_summaries", EmptyDict)
        batch_summaries == Get(batch_summaries_output, "batch_summaries", EmptyDict)
        all_summaries == Get(ctx.state, "all_summaries", EmptyDict)
    IN  Returned(Put(ctx.state, "all_summaries", Update(all_summaries, batch_summaries)),
                 ctx.escalate, [status |-> "success"])

\* the key "project" of doc_summaries["summaries"], among the file paths
PROJECT == -1

\* mutant: state["project_summary_raw"]["project_summary"], a KeyError when
\* the project summary is missing
finalize_summaries_requires_project(ctx) ==
    IF "project_summary_raw" \notin DOMAIN ctx.state
          \/ "project_summary" \notin DOMAIN ctx.state["project_summary_raw"]
    THEN Raised(ctx, "KeyError")
    ELSE LET final_doc_summaries ==
                 [summaries |-> Update(Get(ctx.state, "all_summaries", EmptyDict),
                                       [k \in {PROJECT} |->
                                           ctx.state["project_summary_raw"]["project_summary"]])]
         IN  Returned(Put(ctx.state, "doc_summaries", final_doc_summaries),
                      ctx.escalate, [status |-> "success"])

\* mutant: the project summary is added to the accumulator itself, which
\* becomes the "summaries" of doc_summaries
finalize_summaries_adds_project_in_place(ctx) ==
    LET project_summary_raw ==
            Get(Get(ctx.state, "project_summary_raw", EmptyDict),
                "project_summary", "No project summary found.")
        all_summaries == Update(Get(ctx.state, "all_summaries", EmptyDict),
                                [k \in {PROJECT} |-> project_summary_raw])
        final_doc_summaries == [summaries |-> all_summaries]
    IN  Returned(Put(Put(ctx.state, "all_summaries", all_summaries),
                     "doc_summaries", final_doc_summaries),
                 ctx.escalate, [status |-> "success"])

\* finalize_summaries(tool_context)
finalize_summaries(ctx) ==
    LET all_summaries == Get(ctx.state, "all_summaries", EmptyDict)
        project_summary_raw ==
            Get(Get(ctx.state, "project_summary_raw", EmptyDict),
                "project_summary", "No project summary found.")
        final_doc_summaries ==
            [summaries |-> Update(all_summaries, [k \in {PROJECT} |-> project_summary_raw])]
    IN  Returned(Put(ctx.state, "doc_summaries", final_doc_summaries),
                 ctx.escalate, [status |-> "success"])

-----------------------------------------------------------------------------
(* config.py: batch_size = int(os.environ.get("BATCH_SIZE", "10")).  An     *)
(* environment is [set, value]: whether BATCH_SIZE is set, and to what.    *)

EnvBatchSizes ==
    {[set |-> FALSE, value |-> 0]}
        \cup {[set |-> TRUE, value |-> v] : v \in (0 - MaxNonPositive)..MaxBatchSize}

\* _get_env_var("BATCH_SIZE", DEFAULT_BATCH_SIZE, int)
config_batch_size(env) == IF env.set THEN env.value ELSE DEFAULT_BATCH_SIZE

-----------------------------------------------------------------------------
(* config.py: the BACKOFF_* values, each from the environment or its       *)
(* default.  An environment is [set, ...values]: whether the four are set, *)
(* and to what.                                                            *)

EnvBackoffs ==
    {[set |-> FALSE, init_delay |-> 0, attempts |-> 0, max_delay |-> 0, multiplier |-> 0],
     [set |-> TRUE, init_delay |-> 1, attempts |-> 3, max_delay |-> 5, multiplier |-> 3]}

\* setup_config: backoff_init_delay, backoff_attempts, backoff_max_delay,
\* backoff_multiplier
config_backoff(env) ==
    [backoff_init_delay |-> IF env.set THEN env.init_delay ELSE DEFAULT_BACKOFF_INIT_DELAY,
     backoff_attempts |-> IF env.set THEN env.attempts ELSE DEFAULT_BACKOFF_ATTEMPTS,
     backoff_max_delay |-> IF env.set THEN env.max_delay ELSE DEFAULT_BACKOFF_MAX_DELAY,
     backoff_multiplier |-> IF env.set THEN env.multiplier ELSE DEFAULT_BACKOFF_MULTIPLIER]

-----------------------------------------------------------------------------
(* retry_utils.py: async_retry_with_exponential_backoff, tenacity's retry  *)
(* around the wrapped call f.  One step of the wrapper is one attempt:     *)
(* f is awaited; its result is returned, or its exception is re-raised     *)
(* (not a ResourceExhausted, or the last attempt), or the wrapper sleeps    *)
(* and attempt_number is incremented.                                      *)

\* what one call of f does: it returns, or raises one of two exceptions
CallOutcomes == {"success", "ResourceExhausted", "ValueError"}

\* the k-th call of a mock with the list `effects` as its side_effect
side_effect_of(effects, k) ==
    IF k <= Len(effects) THEN effects[k] ELSE "StopAsyncIteration"

\* mutant: retry=retry_if_exception_type(Exception)
retry_if_any_exception(outcome) == outcome # "success"

\* retry=retry_if_exception_type(ResourceExhausted)
retry_if_exception_type(outcome) == outcome = "ResourceExhausted"

\* mutant: the attempt after the last one is still made
stop_after_one_more(n) == n > max_attempt_number

\* stop=stop_after_attempt(5)
stop_after_attempt(n) == n >= max_attempt_number

\* wait=wait_exponential(multiplier=1, min=4, max=60), after attempt n
wait_exponential(n) ==
    Max(Max(0, wait_min), Min(wait_multiplier * Pow(wait_exp_base, n - 1), wait_max))

\* the callback is not in use
CallbackIdle ==
    /\ llm_response = <<>>
    /\ new_response = <<>>

\* current_config = None: no Config object yet (id 0 is no object)
None ==
    [id |-> 0, valid |-> FALSE, agent_name |-> "", project_id |-> "",
     model |-> "", batch_size |-> 0]

\* what a setup_config call did: the module's current_config afterwards, the
\* exception it raised, the object it returned (by id), whether it read the
\* environment and whether it called google.auth.default
ConfigOutcome(cur, exc, value, environ_read, auth_called) ==
    [current_config |-> cur, raised |-> exc, value |-> value,
     environ_read |-> environ_read, auth_called |-> auth_called]

\* config.py has been imported in an empty environment and not used
ConfigIdle ==
    /\ environ = EmptyDict
    /\ agent_name = "llms_gen_agent"
    /\ current_config = None
    /\ auth_default_calls = 0
    /\ config_result = [call |-> "none"] @@ ConfigOutcome(None, "none", 0, FALSE, FALSE)

\* neither the section mapping nor generate_llms_txt has been called
RenderIdle ==
    /\ max_depth = 0
    /\ file_to_effective_section_dir = <<>>
    /\ llms_txt = <<>>

\* no request to the service has been sent
CallIdle ==
    /\ awaiting = FALSE
    /\ outstanding = 0
    /\ http_attempt = 0

\* the wrapper is not in use
RetryIdle ==
    /\ side_effect = <<>>
    /\ attempt_number = 0
    /\ call_count = 0
    /\ slept = <<>>
    /\ backoff = config_backoff(CHOOSE env \in EnvBackoffs : ~env.set)

-----------------------------------------------------------------------------
(* agent.py: clean_json_callback.  A text is a sequence of characters, of  *)
(* which there are four: a word character (\w), a whitespace character     *)
(* (\s), any other character, and the fence ```, three backticks taken as  *)
(* one character (backticks come in threes in the texts explored).         *)

FENCE == "fence"
Characters == {FENCE, "j", "\n", "{"}

\* \w
is_word(c) == c = "j"

\* \s, also what str.strip() removes
is_space(c) == c = "\n"

\* a greedy \w* from position i of text: the end of the longest run of word
\* characters that starts there (i - 1 when text[i] is not one)
word_run_end(text, i) ==
    CHOOSE e \in (i - 1)..Len(text) :
        /\ \A j \in i..e : is_word(text[j])
        /\ e < Len(text) => ~is_word(text[e + 1])

\* a greedy \s* from position i of text
space_run_end(text, i) ==
    CHOOSE e \in (i - 1)..Len(text) :
        /\ \A j \in i..e : is_space(text[j])
        /\ e < Len(text) => ~is_space(text[e + 1])

\* mutant: the pattern "```(.*?)\s*```", which keeps the language tag
opening_end_fence_only(text, i) == i

\* "```(?:\w*\s*)?" matched at position i, where text[i] is the fence: the
\* position of the last character it takes, both runs being greedy
opening_end(text, i) == space_run_end(text, word_run_end(text, i + 1) + 1)

\* "(.*?)\s*```" matched from position g: the positions q at which the group
\* can end, those followed by whitespace and then a fence
closing_starts(text, g) ==
    {q \in g..Len(text) :
        LET p == space_run_end(text, q) + 1
        IN  p <= Len(text) /\ text[p] = FENCE}

\* the match of the pattern that starts at the fence at position i, if any.
\* The group starts after the greedy opening (giving characters back cannot
\* make a failed match succeed: they are no fences) and, being non-greedy,
\* ends at the first position where the rest of the pattern matches.
match_at(text, i) ==
    LET g == opening_end(text, i) + 1
        Q == closing_starts(text, g)
    IN  IF Q = {} THEN [matched |-> FALSE, group1 |-> <<>>]
        ELSE LET q == CHOOSE x \in Q : \A y \in Q : x <= y
             IN  [matched |-> TRUE, group1 |-> SubSeq(text, g, q - 1)]

\* re.search(r"```(?:\w*\s*)?(.*?)\s*```", text, flags=re.DOTALL): the match
\* at the leftmost position that has one
re_search(text) ==
    LET starts == {i \in 1..Len(text) : text[i] = FENCE /\ match_at(text, i).matched}
    IN  IF starts = {} THEN [matched |-> FALSE, group1 |-> <<>>]
        ELSE match_at(text, CHOOSE i \in starts : \A j \in starts : i <= j)

\* str.strip()
strip(text) ==
    LET keep == {i \in 1..Len(text) : ~is_space(text[i])}
    IN  IF keep = {} THEN <<>>
        ELSE SubSeq(text, CHOOSE i \in keep : \A j \in keep : i <= j,
                          CHOOSE i \in keep : \A j \in keep : i >= j)

\* Part.text of a part that is not text
NoText == <<"None">>

\* LlmResponse(content=None) and LlmResponse(content=Content(parts=parts))
NoContent == [none |-> TRUE, parts |-> <<>>]
Content(parts) == [none |-> FALSE, parts |-> parts]
LlmResponse(content) == [content |-> content]

\* `if llm_response.content and llm_response.content.parts` and
\* `if llm_response.content.parts[0].text`
has_text(resp) ==
    /\ ~resp.content.none
    /\ resp.content.parts # <<>>
    /\ resp.content.parts[1].text # NoText
    /\ resp.content.parts[1].text # <<>>

\* mutant: the text is stripped whether or not a fenced block was found
clean_json_callback_always_strips(resp) ==
    IF has_text(resp)
    THEN LET original_text == resp.content.parts[1].text
             match == re_search(original_text)
             cleaned_text == IF match.matched THEN strip(match.group1)
                             ELSE strip(original_text)
         IN  LlmResponse(Content([resp.content.parts EXCEPT ![1].text = cleaned_text]))
    ELSE resp

\* clean_json_callback(callback_context, llm_response)
clean_json_callback(resp) ==
    IF has_text(resp)
    THEN LET original_text == resp.content.parts[1].text
             match == re_search(original_text)
         IN  IF match.matched
             THEN LET cleaned_text == strip(match.group1)
                  IN  LlmResponse(Content([resp.content.parts EXCEPT ![1].text = cleaned_text]))
             ELSE resp
    ELSE resp

-----------------------------------------------------------------------------
(* The text-generation service, as content_summariser_agent sees it after  *)
(* retries, clean_json_callback and output_schema validation: a mapping of *)
(* file paths to summaries, or an exception.                               *)

Summaries == {"s1", "s2"}

\* The key sets a response may have for a batch: any part of the batch, or
\* the batch and one path that was not asked for (a file of another batch,
\* or path 0, which is no file of the corpus).  Corpora beyond MaxFiles are
\* explored with the faithful response only.
ResponseKeys(files, batch) ==
    IF Len(files) <= MaxFiles
    THEN (SUBSET Range(batch))
             \cup {Range(batch) \cup {x} : x \in (Range(files) \cup {0}) \ Range(batch)}
    ELSE {Range(batch)}

ResponseTexts(files) == IF Len(files) <= MaxFiles THEN Summaries ELSE {"s1"}

ModelFailures == {"ResourceExhausted", "ValidationError"}

-----------------------------------------------------------------------------
(* document_summariser_agent: batch_creation_agent, batch_processing_loop  *)
(* (batch_selector_agent, then single_batch_processor = file_reader_agent, *)
(* content_summariser_agent, update_summaries_agent), then                 *)
(* project_summariser_agent and final_summary_agent.  Every agent makes    *)
(* the one tool call its instruction names.                                *)

\* the corpus sizes explored: the small ones, and those around the ceiling
CorpusSizes == (0..MaxFiles) \cup ((max_iterations - 1)..(max_iterations + MaxOver))

PipelineInit ==
    \E n \in CorpusSizes, env \in EnvBatchSizes :
        /\ n > MaxFiles => config_batch_size(env) = 1
        /\ state = [k \in {"files"} |-> Corpus(n)]
        /\ batch_size = config_batch_size(env)
        /\ escalate = FALSE
        /\ response = <<>>
        /\ raised = "none"
        /\ last_tool = "discover_files"
        /\ pc = "batch_creation_agent"
        /\ times_looped = 0
        /\ loop_exit = "none"
        /\ created = <<>>
        /\ selected = <<>>
        /\ merged = <<>>
        /\ opened = EmptyDict
        /\ CallIdle
        /\ RetryIdle
        /\ CallbackIdle
        /\ RenderIdle
        /\ ConfigIdle

\* a tool call made by the agent at pc: the context it leaves, or the run
\* ends with the exception it raised
Call(tool, r, next_pc) ==
    /\ state' = r.state
    /\ escalate' = r.escalate
    /\ response' = r.response
    /\ raised' = r.raised
    /\ last_tool' = tool
    /\ pc' = IF r.raised = "none" THEN next_pc ELSE "failed"

\* Step 1: batch_creation_agent calls create_file_batches(batch_size)
batch_creation_agent ==
    /\ pc = "batch_creation_agent"
    /\ LET r == create_file_batches(Ctx(state, FALSE), batch_size)
       IN  /\ Call("create_file_batches", r, "batch_processing_loop")
           /\ created' = IF r.raised = "none" THEN r.response ELSE created
    /\ UNCHANGED <<times_looped, batch_size, loop_exit, selected, merged>>
    /\ UNCHANGED <<opened, call_vars, retry_vars, callback_vars, render_vars, config_vars>>

\* mutant: the loop stops one iteration early
loop_continues_one_less(n) == n < max_iterations - 1

\* LoopAgent: while times_looped < max_iterations
loop_continues(n) == n < max_iterations

\* LoopAgent starts its next iteration with the first sub-agent
loop_next_iteration ==
    /\ pc = "batch_processing_loop"
    /\ loop_continues(times_looped)
    /\ pc' = "batch_selector_agent"
    /\ UNCHANGED <<state, escalate, response, raised, last_tool, times_looped,
                   batch_size, loop_exit, created, selected, merged>>
    /\ UNCHANGED <<opened, call_vars, retry_vars, callback_vars, render_vars, config_vars>>

\* LoopAgent returns when max_iterations is reached: no error is raised and
\* document_summariser_agent goes on with its next sub-agent
loop_max_iterations ==
    /\ pc = "batch_processing_loop"
    /\ ~loop_continues(times_looped)
    /\ loop_exit' = "ceiling"
    /\ pc' = "project_summariser_agent"
    /\ UNCHANGED <<state, escalate, response, raised, last_tool, times_looped,
                   batch_size, created, selected, merged>>
    /\ UNCHANGED <<opened, call_vars, retry_vars, callback_vars, render_vars, config_vars>>

\* mutant: the escalate event is looked at only when the iteration is over,
\* so single_batch_processor runs once more on the batch selected last
batch_selector_agent_exits_after_iteration ==
    /\ pc = "batch_selector_agent"
    /\ LET r == process_batch_selection(Ctx(state, FALSE))
       IN  /\ state' = r.state
           /\ escalate' = r.escalate
           /\ response' = r.response
           /\ raised' = r.raised
           /\ last_tool' = "process_batch_selection"
           /\ pc' = IF r.escalate /\ "current_batch" \notin DOMAIN r.state
                    THEN "project_summariser_agent" ELSE "file_reader_agent"
           /\ loop_exit' = IF r.escalate THEN "escalate" ELSE loop_exit
           /\ selected' = IF r.response.status = "batch_selected"
                          THEN Append(selected, r.state["current_batch"])
                          ELSE selected
    /\ UNCHANGED <<times_looped, batch_size, created, merged>>
    /\ UNCHANGED <<opened, call_vars, retry_vars, callback_vars, render_vars, config_vars>>

\* mutant: the selected batch goes to content_summariser_agent unread
batch_selector_agent_skips_reader ==
    /\ pc = "batch_selector_agent"
    /\ LET r == process_batch_selection(Ctx(state, FALSE))
       IN  /\ state' = r.state
           /\ escalate' = r.escalate
           /\ response' = r.response
           /\ raised' = r.raised
           /\ last_tool' = "process_batch_selection"
           /\ pc' = IF r.escalate THEN "project_summariser_agent"
                    ELSE "content_summarizer_agent"
           /\ loop_exit' = IF r.escalate THEN "escalate" ELSE loop_exit
           /\ selected' = IF r.response.status = "batch_selected"
                          THEN Append(selected, r.state["current_batch"])
                          ELSE selected
    /\ UNCHANGED <<times_looped, batch_size, created, merged>>
    /\ UNCHANGED <<opened, call_vars, retry_vars, callback_vars, render_vars, config_vars>>

\* batch_selector_agent calls process_batch_selection; an escalate event
\* ends the loop before single_batch_processor runs
batch_selector_agent ==
    /\ pc = "batch_selector_agent"
    /\ LET r == process_batch_selection(Ctx(state, FALSE))
       IN  /\ state' = r.state
           /\ escalate' = r.escalate
           /\ response' = r.response
           /\ raised' = r.raised
           /\ last_tool' = "process_batch_selection"
           /\ pc' = IF r.escalate THEN "project_summariser_agent" ELSE "file_reader_agent"
           /\ loop_exit' = IF r.escalate THEN "escalate" ELSE loop_exit
           /\ selected' = IF r.response.status = "batch_selected"
                          THEN Append(selected, r.state["current_batch"])
                          ELSE selected
    /\ UNCHANGED <<times_looped, batch_size, created, merged>>
    /\ UNCHANGED <<opened, call_vars, retry_vars, callback_vars, render_vars, config_vars>>

\* file_reader_agent calls read_files
file_reader_agent ==
    /\ pc = "file_reader_agent"
    /\ \E disk \in [Range(Get(state, "current_batch", <<>>)) -> ReadOutcomes] :
           /\ Call("read_files", read_files(Ctx(state, FALSE), disk), "content_summarizer_agent")
           /\ opened' = disk
    /\ UNCHANGED <<times_looped, batch_size, loop_exit, created, selected, merged>>
    /\ UNCHANGED <<call_vars, retry_vars, callback_vars, render_vars, config_vars>>

\* the agents that put one request to the service and store its answer
ModelAgents == {"content_summarizer_agent", "project_summariser_agent"}

\* mutant: the request is sent again while its previous attempt is unanswered
model_call_resends ==
    /\ pc \in ModelAgents
    /\ http_attempt < backoff.backoff_attempts
    /\ awaiting' = TRUE
    /\ outstanding' = outstanding + 1
    /\ http_attempt' = http_attempt + 1
    /\ UNCHANGED <<state, escalate, response, raised, last_tool, pc, times_looped,
                   batch_size, loop_exit, created, selected, merged>>
    /\ UNCHANGED <<opened, retry_vars, callback_vars, render_vars, config_vars>>

\* the agent at pc sends its request to the service: the first attempt, or
\* the next one after an attempt that failed
model_call ==
    /\ pc \in ModelAgents
    /\ ~awaiting
    /\ awaiting' = TRUE
    /\ outstanding' = outstanding + 1
    /\ http_attempt' = http_attempt + 1
    /\ UNCHANGED <<state, escalate, response, raised, last_tool, pc, times_looped,
                   batch_size, loop_exit, created, selected, merged>>
    /\ UNCHANGED <<opened, retry_vars, callback_vars, render_vars, config_vars>>

\* retry_options: an attempt that is not the last one fails with a status
\* the client retries; the request will be sent again
attempt_fails ==
    /\ pc \in ModelAgents
    /\ awaiting
    /\ http_attempt < backoff.backoff_attempts
    /\ awaiting' = FALSE
    /\ outstanding' = outstanding - 1
    /\ UNCHANGED <<state, escalate, response, raised, last_tool, pc, times_looped,
                   batch_size, loop_exit, created, selected, merged>>
    /\ UNCHANGED <<opened, http_attempt, retry_vars, callback_vars, render_vars, config_vars>>

\* the attempt under way is answered, or fails for good
Answered ==
    /\ awaiting
    /\ awaiting' = FALSE
    /\ outstanding' = outstanding - 1
    /\ http_attempt' = 0

\* content_summariser_agent: the model's answer passes the output schema and
\* is stored under output_key "batch_summaries"
content_summariser_agent ==
    /\ pc = "content_summarizer_agent"
    /\ Answered
    /\ \E K \in ResponseKeys(state["files"], state["current_batch"]),
          s \in ResponseTexts(state["files"]) :
           state' = Put(state, "batch_summaries",
                        [k \in {"batch_summaries"} |-> [f \in K |-> s]])
    /\ last_tool' = "content_summarizer_agent"
    /\ pc' = "update_summaries_agent"
    /\ UNCHANGED <<escalate, response, raised, times_looped, batch_size, loop_exit,
                   created, selected, merged>>
    /\ UNCHANGED <<opened, retry_vars, callback_vars, render_vars, config_vars>>

\* mutant: an answer that fails the output schema leaves the agent where it
\* is, so that the summarisation call is issued again for the batch
model_call_fails_retries_malformed ==
    /\ pc \in ModelAgents
    /\ Answered
    /\ \E exc \in ModelFailures :
           /\ exc = "ResourceExhausted" => http_attempt = backoff.backoff_attempts
           /\ raised' = exc
           /\ pc' = IF exc = "ValidationError" /\ pc = "content_summarizer_agent"
                    THEN pc ELSE "failed"
    /\ last_tool' = pc
    /\ UNCHANGED <<state, escalate, response, times_looped, batch_size, loop_exit,
                   created, selected, merged>>
    /\ UNCHANGED <<opened, retry_vars, callback_vars, render_vars, config_vars>>

\* mutant: the exception is caught, the batch is given up and the loop goes
\* on with its next iteration
model_call_fails_drops_batch ==
    /\ pc \in ModelAgents
    /\ Answered
    /\ \E exc \in ModelFailures :
           /\ exc = "ResourceExhausted" => http_attempt = backoff.backoff_attempts
           /\ raised' = exc
    /\ last_tool' = pc
    /\ pc' = IF pc = "content_summarizer_agent" THEN "batch_processing_loop"
             ELSE "final_summary_agent"
    /\ times_looped' = IF pc = "content_summarizer_agent" THEN times_looped + 1
                       ELSE times_looped
    /\ UNCHANGED <<state, escalate, response, batch_size, loop_exit,
                   created, selected, merged>>
    /\ UNCHANGED <<opened, retry_vars, callback_vars, render_vars, config_vars>>

\* a model call that raises (the last attempt failed, or an answer that
\* fails the output schema) ends the run
model_call_fails ==
    /\ pc \in ModelAgents
    /\ Answered
    /\ \E exc \in ModelFailures :
           /\ exc = "ResourceExhausted" => http_attempt = backoff.backoff_attempts
           /\ raised' = exc
    /\ last_tool' = pc
    /\ pc' = "failed"
    /\ UNCHANGED <<state, escalate, response, times_looped, batch_size, loop_exit,
                   created, selected, merged>>
    /\ UNCHANGED <<opened, retry_vars, callback_vars, render_vars, config_vars>>

\* update_summaries_agent calls update_summaries; the iteration is complete
update_summaries_agent ==
    /\ pc = "update_summaries_agent"
    /\ Call("update_summaries", update_summaries(Ctx(state, FALSE)), "batch_processing_loop")
    /\ merged' = Append(merged, state["current_batch"])
    /\ times_looped' = times_looped + 1
    /\ UNCHANGED <<batch_size, loop_exit, created, selected>>
    /\ UNCHANGED <<opened, call_vars, retry_vars, callback_vars, render_vars, config_vars>>

\* Step 3: project_summariser_agent (tools=[read_files], "To read the README")
\* may call read_files, then stores its answer under "project_summary_raw"
project_summariser_agent ==
    /\ pc = "project_summariser_agent"
    /\ Answered
    /\ \E reads \in BOOLEAN :
         \E disk \in [Range(Get(state, "current_batch", Get(state, "files", <<>>)))
                          -> IF reads THEN ReadOutcomes ELSE {"ok"}] :
           LET r == IF reads THEN read_files(Ctx(state, FALSE), disk)
                    ELSE Returned(state, escalate, response)
           IN  /\ state' = Put(r.state, "project_summary_raw",
                               [k \in {"project_summary"} |-> "p1"])
               /\ escalate' = r.escalate
               /\ response' = r.response
               /\ opened' = IF reads THEN disk ELSE opened
    /\ last_tool' = "project_summariser_agent"
    /\ pc' = "final_summary_agent"
    /\ UNCHANGED <<raised, times_looped, batch_size, loop_exit, created, selected, merged>>
    /\ UNCHANGED <<retry_vars, callback_vars, render_vars, config_vars>>

\* Step 4: final_summary_agent calls finalize_summaries
final_summary_agent ==
    /\ pc = "final_summary_agent"
    /\ Call("finalize_summaries", finalize_summaries(Ctx(state, FALSE)), "end")
    /\ UNCHANGED <<times_looped, batch_size, loop_exit, created, selected, merged>>
    /\ UNCHANGED <<opened, call_vars, retry_vars, callback_vars, render_vars, config_vars>>

PipelineNext ==
    \/ batch_creation_agent
    \/ loop_next_iteration
    \/ loop_max_iterations
    \/ batch_selector_agent
    \/ file_reader_agent
    \/ model_call
    \/ attempt_fails
    \/ content_summariser_agent
    \/ model_call_fails
    \/ update_summaries_agent
    \/ project_summariser_agent
    \/ final_summary_agent

-----------------------------------------------------------------------------
(* The tools called on their own, as the unit tests call them: one call of *)
(* a tool on a session state in which any key may be missing.              *)

\* the queues process_batch_selection can find: what is left of a batch list
ToolQueues ==
    {SubSeq(bs, i, Len(bs)) :
        bs \in {fixed_width_chunks(Corpus(n), B) : n \in 0..MaxToolFiles, B \in 1..MaxToolFiles},
        i \in 1..(MaxToolFiles + 1)}

\* the mappings of some of the paths 1..MaxToolFiles to summaries
ToolSummaries ==
    UNION {[K -> Summaries] : K \in SUBSET (1..MaxToolFiles)}

\* state["batch_summaries"]: the output with its top-level key, or without it
ToolOutputs ==
    {[k \in {"batch_summaries"} |-> m] : m \in ToolSummaries} \cup {EmptyDict}

ToolInit ==
    \E present \in SUBSET {"batches", "loop_iteration", "current_batch",
                           "all_summaries", "batch_summaries"},
       q \in ToolQueues, l \in 0..MaxToolIteration, a \in ToolSummaries, o \in ToolOutputs :
        \* a missing key has no value to vary
        /\ "batches" \notin present => q = <<>>
        /\ "loop_iteration" \notin present => l = 0
        /\ "all_summaries" \notin present => a = EmptyDict
        /\ "batch_summaries" \notin present => o = EmptyDict
        /\ state = Restrict([batches |-> q, loop_iteration |-> l, current_batch |-> <<1>>,
                             all_summaries |-> a, batch_summaries |-> o], present)
        /\ escalate = FALSE
        /\ response = <<>>
        /\ raised = "none"
        /\ last_tool = "none"
        /\ pc = "tool_call"
        /\ times_looped = 0
        /\ batch_size = DEFAULT_BATCH_SIZE
        /\ loop_exit = "none"
        /\ created = <<>>
        /\ selected = <<>>
        /\ merged = <<>>
        /\ opened = EmptyDict
        /\ CallIdle
        /\ RetryIdle
        /\ CallbackIdle
        /\ RenderIdle
        /\ ConfigIdle

\* state["project_summary_raw"]: the output with its key, or without it
ToolProjectOutputs ==
    {[k \in {"project_summary"} |-> "p1"], EmptyDict}

\* the states finalize_summaries is tested on: accumulator and project
\* summary, each set or missing
FinalizeInit ==
    \E present \in SUBSET {"all_summaries", "project_summary_raw"},
       a \in ToolSummaries, p \in ToolProjectOutputs :
        /\ "all_summaries" \notin present => a = EmptyDict
        /\ "project_summary_raw" \notin present => p = EmptyDict
        /\ state = Restrict([all_summaries |-> a, project_summary_raw |-> p], present)
        /\ escalate = FALSE
        /\ response = <<>>
        /\ raised = "none"
        /\ last_tool = "none"
        /\ pc = "tool_call"
        /\ times_looped = 0
        /\ batch_size = DEFAULT_BATCH_SIZE
        /\ loop_exit = "none"
        /\ created = <<>>
        /\ selected = <<>>
        /\ merged = <<>>
        /\ opened = EmptyDict
        /\ CallIdle
        /\ RetryIdle
        /\ CallbackIdle
        /\ RenderIdle
        /\ ConfigIdle

\* the lists read_files is given: the paths 1..n, in one of their orders
ToolFileLists ==
    {<<>>, <<1>>, <<2>>, <<1, 2>>, <<2, 1>>}

\* the states read_files is tested on: "files" alone, as in its unit tests,
\* "current_batch" alone, both, or neither
ReadFilesInit ==
    \E present \in SUBSET {"files", "current_batch"},
       files \in ToolFileLists, current_batch \in ToolFileLists :
        /\ "files" \notin present => files = <<>>
        /\ "current_batch" \notin present => current_batch = <<>>
        /\ state = Restrict([files |-> files, current_batch |-> current_batch], present)
        /\ escalate = FALSE
        /\ response = <<>>
        /\ raised = "none"
        /\ last_tool = "none"
        /\ pc = "tool_call"
        /\ times_looped = 0
        /\ batch_size = DEFAULT_BATCH_SIZE
        /\ loop_exit = "none"
        /\ created = <<>>
        /\ selected = <<>>
        /\ merged = <<>>
        /\ opened = EmptyDict
        /\ CallIdle
        /\ RetryIdle
        /\ CallbackIdle
        /\ RenderIdle
        /\ ConfigIdle

call_read_files ==
    /\ pc = "tool_call"
    /\ \E disk \in [Range(Get(state, "current_batch", Get(state, "files", <<>>)))
                        -> ReadOutcomes] :
           /\ Call("read_files", read_files(Ctx(state, escalate), disk), "returned")
           /\ opened' = disk
    /\ UNCHANGED <<times_looped, batch_size, loop_exit, created, selected, merged>>
    /\ UNCHANGED <<call_vars, retry_vars, callback_vars, render_vars, config_vars>>

call_finalize_summaries ==
    /\ pc = "tool_call"
    /\ Call("finalize_summaries", finalize_summaries(Ctx(state, escalate)), "returned")
    /\ UNCHANGED <<times_looped, batch_size, loop_exit, created, selected, merged>>
    /\ UNCHANGED <<opened, call_vars, retry_vars, callback_vars, render_vars, config_vars>>

call_process_batch_selection ==
    /\ pc = "tool_call"
    /\ Call("process_batch_selection", process_batch_selection(Ctx(state, escalate)), "returned")
    /\ UNCHANGED <<times_looped, batch_size, loop_exit, created, selected, merged>>
    /\ UNCHANGED <<opened, call_vars, retry_vars, callback_vars, render_vars, config_vars>>

call_update_summaries ==
    /\ pc = "tool_call"
    /\ Call("update_summaries", update_summaries(Ctx(state, escalate)), "returned")
    /\ UNCHANGED <<times_looped, batch_size, loop_exit, created, selected, merged>>
    /\ UNCHANGED <<opened, call_vars, retry_vars, callback_vars, render_vars, config_vars>>

ToolNext ==
    \/ call_process_batch_selection
    \/ call_update_summaries
    \/ call_finalize_summaries
    \/ call_read_files

-----------------------------------------------------------------------------
(* The retry wrapper around a mock, as its unit tests call it: the mock's  *)
(* side_effect lists what each call of it does.                            *)

\* the variables of the pipeline and of the tools, when neither is in use
PipelineIdle ==
    /\ state = EmptyDict
    /\ escalate = FALSE
    /\ response = <<>>
    /\ raised = "none"
    /\ last_tool = "none"
    /\ times_looped = 0
    /\ batch_size = DEFAULT_BATCH_SIZE
    /\ loop_exit = "none"
    /\ created = <<>>
    /\ selected = <<>>
    /\ merged = <<>>
    /\ opened = EmptyDict
    /\ CallIdle

RetryInit ==
    \E effects \in [1..MaxSideEffects -> CallOutcomes], env \in EnvBackoffs :
        /\ side_effect = effects
        /\ attempt_number = 1
        /\ call_count = 0
        /\ slept = <<>>
        /\ backoff = config_backoff(env)
        /\ pc = "wrapper"
        /\ PipelineIdle
        /\ CallbackIdle
        /\ RenderIdle
        /\ ConfigIdle

\* one attempt of the decorated call
wrapper ==
    /\ pc = "wrapper"
    /\ LET outcome == side_effect_of(side_effect, call_count + 1)
       IN  /\ call_count' = call_count + 1
           /\ IF outcome = "success"
              THEN /\ response' = [result |-> outcome]
                   /\ pc' = "returned"
                   /\ UNCHANGED <<raised, attempt_number, slept>>
              ELSE IF ~retry_if_exception_type(outcome) \/ stop_after_attempt(attempt_number)
              THEN /\ raised' = outcome
                   /\ pc' = "failed"
                   /\ UNCHANGED <<response, attempt_number, slept>>
              ELSE /\ slept' = Append(slept, wait_exponential(attempt_number))
                   /\ attempt_number' = attempt_number + 1
                   /\ UNCHANGED <<response, raised, pc>>
    /\ last_tool' = "wrapper"
    /\ UNCHANGED <<state, escalate, times_looped, batch_size, loop_exit,
                   created, selected, merged, opened, call_vars, side_effect,
                   backoff, callback_vars, render_vars, config_vars>>

RetryNext == wrapper

-----------------------------------------------------------------------------
(* clean_json_callback on its own, as its unit tests call it.              *)

\* the texts of up to MaxTextLen characters
Texts == UNION {[1..n -> Characters] : n \in 0..MaxTextLen}

\* the responses the callback is given: no content, no part, a part that is
\* not text, a text part, and a text part followed by another part
LlmResponses ==
    {LlmResponse(NoContent), LlmResponse(Content(<<>>)),
     LlmResponse(Content(<<[text |-> NoText]>>))}
        \cup {LlmResponse(Content(<<[text |-> t]>>)) : t \in Texts}
        \cup {LlmResponse(Content(<<[text |-> t], [text |-> NoText]>>)) :
                 t \in UNION {[1..n -> Characters] : n \in 0..2}}

CallbackInit ==
    \E resp \in LlmResponses :
        /\ llm_response = resp
        /\ new_response = <<>>
        /\ pc = "after_model_callback"
        /\ PipelineIdle
        /\ RetryIdle
        /\ RenderIdle
        /\ ConfigIdle

call_clean_json_callback ==
    /\ pc = "after_model_callback"
    /\ new_response' = clean_json_callback(llm_response)
    /\ last_tool' = "clean_json_callback"
    /\ pc' = "returned"
    /\ UNCHANGED <<state, escalate, response, raised, times_looped, batch_size,
                   loop_exit, created, selected, merged, opened, call_vars,
                   retry_vars, llm_response, render_vars, config_vars>>

CallbackNext == call_clean_json_callback

-----------------------------------------------------------------------------
(* llms_gen_agent/tools.py: _map_files_to_effective_sections,              *)
(* _write_llms_txt_section and generate_llms_txt.  A path is the sequence  *)
(* of its components: "/repo/docs/api" is <<"repo", "docs", "api">>.  The  *)
(* file with path number f lies at FilePath(f).                            *)

\* the names in use, listed in the order of Python's str comparison; none
\* is the beginning of another, so that comparing "/"-joined paths as
\* strings is comparing them component by component
NameOrder ==
    <<"README.md", "api", "docs", "guide.md", "index.md", "intro.md", "new.md",
      "repo", "v1">>

\* repo_path: the root of the repository
RepoPath == <<"repo">>

\* the files of the repository: those of the unit tests' corpus, and one in
\* a second top-level directory
RepoFiles ==
    <<<<"README.md">>, <<"docs", "guide.md">>, <<"docs", "new.md">>,
      <<"docs", "api", "index.md">>, <<"docs", "api", "v1", "intro.md">>,
      <<"api", "index.md">>>>

\* the absolute path of file f
FilePath(f) == RepoPath \o RepoFiles[f]

Rank(name) == CHOOSE i \in 1..Len(NameOrder) : NameOrder[i] = name

\* p < q for two paths as Python compares the strings
PathLess(p, q) ==
    \E k \in 0..Min(Len(p), Len(q)) :
        /\ SubSeq(p, 1, k) = SubSeq(q, 1, k)
        /\ \/ k = Len(p) /\ k < Len(q)
           \/ k < Len(p) /\ k < Len(q) /\ Rank(p[k + 1]) < Rank(q[k + 1])

\* mutant: the paths in descending order
sorted_descending(paths) ==
    LET RECURSIVE desc(_)
        desc(S) == IF S = {} THEN <<>>
                   ELSE LET last == CHOOSE p \in S : \A q \in S \ {p} : PathLess(q, p)
                        IN  <<last>> \o desc(S \ {last})
    IN  desc(paths)

\* sorted(paths), for a set of distinct paths
sorted(paths) ==
    LET RECURSIVE asc(_)
        asc(S) == IF S = {} THEN <<>>
                  ELSE LET first == CHOOSE p \in S : \A q \in S \ {p} : PathLess(p, q)
                       IN  <<first>> \o asc(S \ {first})
    IN  asc(paths)

\* os.path.relpath(path, start), for a path at or below start; <<>> is "."
relpath(path, start) == SubSeq(path, Len(start) + 1, Len(path))

\* os.path.dirname of a relative path; <<>> is ""
dirname(path) == SubSeq(path, 1, Len(path) - 1)

\* os.path.basename
basename(path) == path[Len(path)]

\* the section of one file: [raised, value]
effective_section(file_path, repo_path, depth) ==
    LET relative_dir_path == dirname(relpath(file_path, repo_path))
        \* the parts with index i < max_depth
        effective_section_relative_parts ==
            SubSeq(relative_dir_path, 1, Min(Max(depth, 0), Len(relative_dir_path)))
    IN  IF relative_dir_path = <<>>
        THEN [raised |-> "none", value |-> repo_path]
        ELSE IF effective_section_relative_parts = <<>>
        \* os.path.join(*[]): join() missing 1 required positional argument
        THEN [raised |-> "TypeError", value |-> <<>>]
        ELSE [raised |-> "none", value |-> repo_path \o effective_section_relative_parts]

\* _map_files_to_effective_sections(all_files, repo_path, max_depth):
\* [raised, value], the value a mapping of path numbers to section paths
map_files_to_effective_sections(all_files, repo_path, depth) ==
    IF \E f \in Range(all_files) :
           effective_section(FilePath(f), repo_path, depth).raised # "none"
    THEN [raised |-> "TypeError", value |-> <<>>]
    ELSE [raised |-> "none",
          value |-> [f \in Range(all_files) |->
                        effective_section(FilePath(f), repo_path, depth).value]]

\* str.title() of a directory name
title(name) ==
    CASE name = "api" -> "Api"
      [] name = "docs" -> "Docs"
      [] name = "v1" -> "V1"
      [] OTHER -> name

\* mutant: the section is named by the last component of its path only
section_name_of_last_component(directory, repo_path) ==
    LET rel == relpath(directory, repo_path)
    IN  IF rel = <<>> THEN <<"Home">> ELSE <<title(rel[Len(rel)])>>

\* the section's display name, as its words
section_name(directory, repo_path) ==
    LET rel == relpath(directory, repo_path)
    IN  IF rel = <<>> THEN <<"Home">> ELSE [i \in 1..Len(rel) |-> title(rel[i])]

\* one line written to llms.txt
Line(kind, section, name, file, link, text) ==
    [kind |-> kind, section |-> section, name |-> name, file |-> file,
     link |-> link, text |-> text]

\* mutant: the summary is looked up under the file's relative path, which
\* is no key of the summaries
write_llms_txt_section_looks_up_relative_path(directory, repo_path, files, mapping, doc_summaries) ==
    LET section_files_to_write == {f \in Range(files) : mapping[f] = directory}
        in_order == sorted({FilePath(f) : f \in section_files_to_write})
        file_at(i) == CHOOSE f \in section_files_to_write : FilePath(f) = in_order[i]
    IN  <<Line("heading", directory, section_name(directory, repo_path), 0, <<>>, "")>>
            \o [i \in 1..Len(in_order) |->
                   Line("file", directory, <<basename(in_order[i])>>, file_at(i),
                        relpath(in_order[i], repo_path), "No summary")]
            \o <<Line("blank", directory, <<>>, 0, <<>>, "")>>

\* mutant: a file the summaries have no entry for gets no line
write_llms_txt_section_skips_unsummarised(directory, repo_path, files, mapping, doc_summaries) ==
    LET section_files_to_write ==
            {f \in Range(files) : mapping[f] = directory /\ f \in DOMAIN doc_summaries}
        in_order == sorted({FilePath(f) : f \in section_files_to_write})
        file_at(i) == CHOOSE f \in section_files_to_write : FilePath(f) = in_order[i]
    IN  <<Line("heading", directory, section_name(directory, repo_path), 0, <<>>, "")>>
            \o [i \in 1..Len(in_order) |->
                   Line("file", directory, <<basename(in_order[i])>>, file_at(i),
                        relpath(in_order[i], repo_path),
                        Get(doc_summaries, file_at(i), "No summary"))]
            \o <<Line("blank", directory, <<>>, 0, <<>>, "")>>

\* _write_llms_txt_section: the heading, one line for each file of `files`
\* mapped to `directory`, in the order of sorted(), and a blank line
write_llms_txt_section(directory, repo_path, files, mapping, doc_summaries) ==
    LET section_files_to_write == {f \in Range(files) : mapping[f] = directory}
        in_order == sorted({FilePath(f) : f \in section_files_to_write})
        file_at(i) == CHOOSE f \in section_files_to_write : FilePath(f) = in_order[i]
    IN  <<Line("heading", directory, section_name(directory, repo_path), 0, <<>>, "")>>
            \o [i \in 1..Len(in_order) |->
                   Line("file", directory, <<basename(in_order[i])>>, file_at(i),
                        relpath(in_order[i], repo_path),
                        Get(doc_summaries, file_at(i), "No summary"))]
            \o <<Line("blank", directory, <<>>, 0, <<>>, "")>>

MAX_SECTION_DEPTH == 2

\* generate_llms_txt(repo_path, tool_context): [ctx, written], the context
\* it leaves and the lines it wrote.  doc_summaries.pop("project", None)
\* takes the entry out of the mapping held in the session state.
generate_llms_txt(repo_path, ctx) ==
    LET files == Get(ctx.state, "files", <<>>)
        doc_summaries_full == Get(ctx.state, "doc_summaries", EmptyDict)
        summaries == Get(doc_summaries_full, "summaries", EmptyDict)
        project_summary == Get(summaries, PROJECT, "None")
        doc_summaries == Restrict(summaries, DOMAIN summaries \ {PROJECT})
        st1 == IF "doc_summaries" \in DOMAIN ctx.state
                  /\ "summaries" \in DOMAIN doc_summaries_full
               THEN Put(ctx.state, "doc_summaries",
                        Put(doc_summaries_full, "summaries", doc_summaries))
               ELSE ctx.state
        m == map_files_to_effective_sections(files, repo_path, MAX_SECTION_DEPTH)
        effective_section_dirs == sorted(Range(m.value))
        written ==
            <<Line("title", <<>>, <<basename(repo_path), "Sitemap">>, 0, <<>>, ""),
              Line("overview", <<>>, <<>>, 0, <<>>,
                   IF project_summary \notin {"None", ""} THEN project_summary
                   ELSE "No project summary found")>>
                \o Flatten([i \in 1..Len(effective_section_dirs) |->
                               write_llms_txt_section(effective_section_dirs[i], repo_path,
                                                      files, m.value, doc_summaries)])
    IN  IF m.raised # "none"
        THEN [ctx |-> Raised(Ctx(st1, ctx.escalate), m.raised), written |-> <<>>]
        ELSE [ctx |-> Returned(Put(st1, "llms_txt_path", "temp/llms.txt"), ctx.escalate,
                               [status |-> "success", llms_txt_path |-> "temp/llms.txt"]),
              written |-> written]

-----------------------------------------------------------------------------
(* The section mapping and generate_llms_txt called on their own, as       *)
(* test_tools.py calls generate_llms_txt: on a session state with the      *)
(* discovered files and the finalised summaries.                           *)

\* the corpus of test_generate_llms_txt_*, in the order of the test
TestCorpus == <<1, 2, 3, 4, 5>>

\* state["files"]: up to MaxDocFiles of the repository's files, in any
\* order, or the tests' corpus
DiscoveredLists ==
    UNION {{s \in [1..n -> 1..Len(RepoFiles)] : \A i, j \in 1..n : s[i] = s[j] => i = j} :
              n \in 0..MaxDocFiles}
        \cup {TestCorpus}

\* the variables of the pipeline that the two calls do not use
RenderUnused ==
    /\ escalate = FALSE
    /\ response = <<>>
    /\ raised = "none"
    /\ last_tool = "none"
    /\ times_looped = 0
    /\ batch_size = DEFAULT_BATCH_SIZE
    /\ loop_exit = "none"
    /\ created = <<>>
    /\ selected = <<>>
    /\ merged = <<>>
    /\ opened = EmptyDict
    /\ CallIdle
    /\ RetryIdle
    /\ CallbackIdle
    /\ RenderIdle

MapInit ==
    \E files \in DiscoveredLists :
        /\ state = [k \in {"files"} |-> files]
        /\ pc = "map_call"
        /\ RenderUnused
        /\ ConfigIdle

\* _map_files_to_effective_sections(state["files"], repo_path, depth)
call_map_files_to_effective_sections ==
    /\ pc = "map_call"
    /\ \E depth \in 0..MaxDepth :
           LET m == map_files_to_effective_sections(state["files"], RepoPath, depth)
           IN  /\ max_depth' = depth
               /\ file_to_effective_section_dir' = m.value
               /\ raised' = m.raised
               /\ pc' = IF m.raised = "none" THEN "returned" ELSE "failed"
    /\ last_tool' = "_map_files_to_effective_sections"
    /\ UNCHANGED <<state, escalate, response, times_looped, batch_size, loop_exit,
                   created, selected, merged, opened, llms_txt>>
    /\ UNCHANGED <<call_vars, retry_vars, callback_vars, config_vars>>

\* the summary of file f, where it has one: not the same for all files
SummaryFor(f) == IF f % 2 = 1 THEN "s1" ELSE "s2"

\* the states generate_llms_txt is called on: doc_summaries missing, or set
\* with a summary for some of the files, with or without the "project" entry,
\* next to the accumulator it was made from
RenderInit ==
    \E files \in DiscoveredLists, present \in BOOLEAN, has_project \in BOOLEAN :
        \E a \in {[f \in K |-> SummaryFor(f)] : K \in SUBSET Range(files)} :
            /\ ~present => ~has_project /\ a = EmptyDict
            /\ state = Restrict(
                   [files |-> files,
                    all_summaries |-> a,
                    doc_summaries |->
                        [summaries |->
                            IF has_project THEN Update(a, [k \in {PROJECT} |-> "p1"]) ELSE a]],
                   IF present THEN {"files", "all_summaries", "doc_summaries"}
                   ELSE {"files"})
            /\ pc = "llms_txt_call"
            /\ RenderUnused
            /\ ConfigIdle

call_generate_llms_txt ==
    /\ pc = "llms_txt_call"
    /\ LET r == generate_llms_txt(RepoPath, Ctx(state, escalate))
       IN  /\ Call("generate_llms_txt", r.ctx, "returned")
           /\ llms_txt' = r.written
    /\ UNCHANGED <<times_looped, batch_size, loop_exit, created, selected, merged, opened,
                   max_depth, file_to_effective_section_dir>>
    /\ UNCHANGED <<call_vars, retry_vars, callback_vars, config_vars>>

\* generate_llms_txt called once more, on the session state the first call left
call_generate_llms_txt_again ==
    /\ pc = "returned"
    /\ last_tool = "generate_llms_txt"
    /\ LET r == generate_llms_txt(RepoPath, Ctx(state, escalate))
       IN  /\ Call("generate_llms_txt", r.ctx, "returned_again")
           /\ llms_txt' = r.written
    /\ UNCHANGED <<times_looped, batch_size, loop_exit, created, selected, merged, opened,
                   max_depth, file_to_effective_section_dir>>
    /\ UNCHANGED <<call_vars, retry_vars, callback_vars, config_vars>>

RenderNext ==
    \/ call_map_files_to_effective_sections
    \/ call_generate_llms_txt
    \/ call_generate_llms_txt_again

-----------------------------------------------------------------------------
(* config.py: setup_config and Config.invalidate, called in any order      *)
(* while the environment changes.  Of the fields read from the environment *)
(* the model keeps model (a string) and batch_size (converted with int);   *)
(* the others are read and stored the same way.                            *)

DEFAULT_AGENT_NAME == "llms_gen_agent"
DEFAULT_MODEL == "gemini-2.5-flash"

\* the values each environment variable takes when set; "three" is no integer
EnvValues ==
    [AGENT_NAME |-> {"my-test-agent"}, MODEL |-> {"gemini-pro"},
     BATCH_SIZE |-> {"3", "three"}]

Environments ==
    UNION {{env \in [K -> UNION {EnvValues[k] : k \in K}] :
                \A k \in K : env[k] \in EnvValues[k]} :
           K \in SUBSET DOMAIN EnvValues}

\* what google.auth.default() returns as project id; "" is None
ProjectIds == {"", "test-project-id", "my-gcp-project"}

\* int(x) for the texts in use: ValueError for text that is no integer
int(x) ==
    CASE x = "10" -> [raised |-> "none", value |-> DEFAULT_BATCH_SIZE]
      [] x = "3" -> [raised |-> "none", value |-> 3]
      [] OTHER -> [raised |-> "ValueError", value |-> 0]

\* os.environ.get(key, default_value), before the type conversion
get_env_var(env, key, default_value) == Get(env, key, default_value)

\* the dict config_data built from the environment; building it raises what
\* a type converter raises
config_data(env) ==
    LET batch == int(get_env_var(env, "BATCH_SIZE", "10"))
    IN  [raised |-> batch.raised,
         model |-> get_env_var(env, "MODEL", DEFAULT_MODEL),
         batch_size |-> batch.value]

\* Config.invalidate()
invalidate(self) == [self EXCEPT !.valid = FALSE]

\* setup_config() without its early return: the environment is read on every call
setup_config_ignores_cache(cur, env, name, project_id) ==
    LET data == config_data(env)
    IN  IF data.raised # "none"
        THEN ConfigOutcome(cur, data.raised, 0, TRUE, FALSE)
        ELSE IF cur # None
        THEN LET updated == [cur EXCEPT !.model = data.model,
                                        !.batch_size = data.batch_size,
                                        !.valid = TRUE]
             IN  ConfigOutcome(updated, "none", updated.id, TRUE, FALSE)
        ELSE IF project_id = ""
        THEN ConfigOutcome(None, "ConfigError", 0, TRUE, TRUE)
        ELSE LET new == [id |-> 1, valid |-> TRUE, agent_name |-> name,
                         project_id |-> project_id, model |-> data.model,
                         batch_size |-> data.batch_size]
             IN  ConfigOutcome(new, "none", new.id, TRUE, TRUE)

\* setup_config() that assigns current_config before it checks the project id
setup_config_caches_before_check(cur, env, name, project_id) ==
    IF cur # None /\ cur.valid
    THEN ConfigOutcome(cur, "none", cur.id, FALSE, FALSE)
    ELSE LET data == config_data(env)
         IN  IF data.raised # "none"
             THEN ConfigOutcome(cur, data.raised, 0, TRUE, FALSE)
             ELSE IF cur # None
             THEN LET updated == [cur EXCEPT !.model = data.model,
                                             !.batch_size = data.batch_size,
                                             !.valid = TRUE]
                  IN  ConfigOutcome(updated, "none", updated.id, TRUE, FALSE)
             ELSE LET new == [id |-> 1, valid |-> TRUE, agent_name |-> name,
                              project_id |-> project_id, model |-> data.model,
                              batch_size |-> data.batch_size]
                  IN  ConfigOutcome(new, IF project_id = "" THEN "ConfigError" ELSE "none",
                                    IF project_id = "" THEN 0 ELSE new.id, TRUE, TRUE)

\* setup_config() that builds a new Config when the cached one is invalid
setup_config_rebuilds_on_reload(cur, env, name, project_id) ==
    IF cur # None /\ cur.valid
    THEN ConfigOutcome(cur, "none", cur.id, FALSE, FALSE)
    ELSE LET data == config_data(env)
         IN  IF data.raised # "none"
             THEN ConfigOutcome(cur, data.raised, 0, TRUE, FALSE)
             ELSE IF project_id = ""
             THEN ConfigOutcome(cur, "ConfigError", 0, TRUE, TRUE)
             ELSE LET new == [id |-> cur.id + 1, valid |-> TRUE, agent_name |-> name,
                              project_id |-> project_id, model |-> data.model,
                              batch_size |-> data.batch_size]
                  IN  ConfigOutcome(new, "none", new.id, TRUE, TRUE)

\* setup_config(), where cur is current_config, name the module's agent_name
\* and project_id what google.auth.default() returns if it is called
setup_config(cur, env, name, project_id) ==
    IF cur # None /\ cur.valid
    THEN ConfigOutcome(cur, "none", cur.id, FALSE, FALSE)
    ELSE LET data == config_data(env)
         IN  IF data.raised # "none"
             THEN ConfigOutcome(cur, data.raised, 0, TRUE, FALSE)
             ELSE IF cur # None
             THEN LET updated == [cur EXCEPT !.model = data.model,
                                             !.batch_size = data.batch_size,
                                             !.valid = TRUE]
                  IN  ConfigOutcome(updated, "none", updated.id, TRUE, FALSE)
             ELSE IF project_id = ""
             THEN ConfigOutcome(None, "ConfigError", 0, TRUE, TRUE)
             ELSE LET new == [id |-> 1, valid |-> TRUE, agent_name |-> name,
                              project_id |-> project_id, model |-> data.model,
                              batch_size |-> data.batch_size]
                  IN  ConfigOutcome(new, "none", new.id, TRUE, TRUE)

\* config.py is imported in some environment: agent_name is read then
ConfigInit ==
    \E env \in Environments :
        /\ environ = env
        /\ agent_name = get_env_var(env, "AGENT_NAME", DEFAULT_AGENT_NAME)
        /\ current_config = None
        /\ auth_default_calls = 0
        /\ config_result = [call |-> "none"] @@ ConfigOutcome(None, "none", 0, FALSE, FALSE)
        /\ pc = "config"
        /\ PipelineIdle
        /\ RetryIdle
        /\ CallbackIdle
        /\ RenderIdle

call_setup_config ==
    /\ pc = "config"
    /\ \E project_id \in ProjectIds :
           LET r == setup_config(current_config, environ, agent_name, project_id)
           IN  /\ r.auth_called => auth_default_calls < MaxAuthCalls
               /\ current_config' = r.current_config
               /\ auth_default_calls' = auth_default_calls + (IF r.auth_called THEN 1 ELSE 0)
               /\ config_result' = [call |-> "setup_config"] @@ r
    /\ UNCHANGED <<environ, agent_name>>
    /\ UNCHANGED <<state, escalate, response, raised, last_tool, pc, times_looped,
                   batch_size, loop_exit, created, selected, merged, opened,
                   call_vars, retry_vars, callback_vars, render_vars>>

\* current_config.invalidate(), on the Config object a setup_config returned
call_invalidate ==
    /\ pc = "config"
    /\ current_config # None
    /\ current_config' = invalidate(current_config)
    /\ config_result' = [config_result EXCEPT !.call = "invalidate"]
    /\ UNCHANGED <<environ, agent_name, auth_default_calls>>
    /\ UNCHANGED <<state, escalate, response, raised, last_tool, pc, times_looped,
                   batch_size, loop_exit, created, selected, merged, opened,
                   call_vars, retry_vars, callback_vars, render_vars>>

\* os.environ[key] = value, by whoever runs the program
environ_setitem ==
    /\ pc = "config"
    /\ \E key \in DOMAIN EnvValues :
           \E value \in EnvValues[key] :
               /\ Get(environ, key, "") # value
               /\ environ' = Put(environ, key, value)
    /\ config_result' = [config_result EXCEPT !.call = "environ"]
    /\ UNCHANGED <<agent_name, current_config, auth_default_calls>>
    /\ UNCHANGED <<state, escalate, response, raised, last_tool, pc, times_looped,
                   batch_size, loop_exit, created, selected, merged, opened,
                   call_vars, retry_vars, callback_vars, render_vars>>

\* del os.environ[key]
environ_delitem ==
    /\ pc = "config"
    /\ \E key \in DOMAIN environ :
           environ' = Restrict(environ, DOMAIN environ \ {key})
    /\ config_result' = [config_result EXCEPT !.call = "environ"]
    /\ UNCHANGED <<agent_name, current_config, auth_default_calls>>
    /\ UNCHANGED <<state, escalate, response, raised, last_tool, pc, times_looped,
                   batch_size, loop_exit, created, selected, merged, opened,
                   call_vars, retry_vars, callback_vars, render_vars>>

ConfigNext ==
    \/ call_setup_config
    \/ call_invalidate
    \/ environ_setitem
    \/ environ_delitem

-----------------------------------------------------------------------------
(* A behaviour is a run of the pipeline, one call of a tool on its own, or *)
(* one call of the retry wrapper, of the callback, of the section mapping  *)
(* or of generate_llms_txt on its own.                                     *)

Init ==
    \/ PipelineInit
    \/ ToolInit \/ FinalizeInit \/ ReadFilesInit
    \/ RetryInit
    \/ CallbackInit
    \/ MapInit \/ RenderInit
    \/ ConfigInit

Next ==
    \/ PipelineNext \/ ToolNext \/ RetryNext \/ CallbackNext \/ RenderNext
    \/ ConfigNext

Spec == Init /\ [][Next]_vars

\* the runs of the pipeline, in which every agent that can run does run
FairSpec == PipelineInit /\ [][PipelineNext]_vars /\ WF_vars(PipelineNext)

-----------------------------------------------------------------------------
(* Properties.                                                             *)

\* the state right after create_file_batches returned in a pipeline run
BatchesCreated == last_tool = "create_file_batches" /\ raised = "none"

\* a step that is a call of process_batch_selection, by its agent or on its own
SelectionStep ==
    /\ pc \in {"batch_selector_agent", "tool_call"}
    /\ last_tool' = "process_batch_selection"

\* C1: for a corpus of n files and a batch size B >= 1, create_file_batches
\* does not raise and returns ceil(n / B) batches (none for n = 0) whose
\* concatenation, in order, is the corpus; state["batches"] holds that list.
C1_BatchCountAndConcatenation ==
    (last_tool = "create_file_batches" /\ batch_size >= 1) =>
        /\ raised = "none"
        /\ Len(response) = CeilDiv(Len(state["files"]), batch_size)
        /\ (state["files"] = <<>> => response = <<>>)
        /\ Flatten(response) = state["files"]
        /\ state["batches"] = response

\* three files in batches of two: a full batch and a shorter last one
C1_Witness ==
    /\ BatchesCreated
    /\ Len(state["files"]) = 3
    /\ batch_size = 2
    /\ Len(response) = 2

\* C2: for a batch size B >= 1 every batch has between 1 and B files, every
\* batch but the last has exactly B, and every file of the corpus is at
\* exactly one position of exactly one batch (batches hold nothing else).
C2_BatchesPartitionCorpus ==
    BatchesCreated =>
        /\ \A k \in DOMAIN response :
              /\ Len(response[k]) >= 1
              /\ Len(response[k]) <= batch_size
              /\ k < Len(response) => Len(response[k]) = batch_size
              /\ Range(response[k]) \subseteq Range(state["files"])
        /\ \A f \in Range(state["files"]) :
              Cardinality({p \in {<<k, i>> : k \in DOMAIN response, i \in 1..batch_size} :
                              /\ p[2] <= Len(response[p[1]])
                              /\ response[p[1]][p[2]] = f}) = 1

\* a corpus split into a full batch and a shorter last batch
C2_Witness ==
    /\ BatchesCreated
    /\ Len(response) >= 2
    /\ Len(response[1]) = batch_size
    /\ Len(response[Len(response)]) < batch_size

\* C3: in a run configured with a batch size <= 0 create_file_batches raises
\* ConfigurationError, which ends the run: no batch list is stored, no batch
\* is selected, no file is read and no summarisation call is made.
C3_NonPositiveBatchSizeRejected ==
    (pc # "tool_call" /\ pc # "returned" /\ batch_size <= 0) =>
        /\ pc \in {"batch_creation_agent", "failed"}
        /\ pc = "failed" => raised = "ConfigurationError"
        /\ DOMAIN state = {"files"}
        /\ created = <<>> /\ selected = <<>> /\ merged = <<>>
        /\ last_tool \in {"discover_files", "create_file_batches"}

\* a run with a non-empty corpus and batch size 0 that was ended by the error
C3_Witness ==
    /\ pc = "failed"
    /\ batch_size = 0
    /\ raised = "ConfigurationError"
    /\ state["files"] # <<>>

\* C4: called with a non-empty queue, process_batch_selection removes the
\* first batch, makes it current_batch, leaves the other batches in order,
\* adds 1 to loop_iteration (0 when unset) and returns "batch_selected".
C4_SelectionPopsFirstBatch ==
    [][(SelectionStep /\ Get(state, "batches", <<>>) # <<>>) =>
          /\ raised' = "none"
          /\ response'.status = "batch_selected"
          /\ escalate' = FALSE
          /\ {"current_batch", "batches", "loop_iteration"} \subseteq DOMAIN state'
          /\ state'["current_batch"] = Head(state["batches"])
          /\ state'["batches"] = Tail(state["batches"])
          /\ state'["loop_iteration"] = Get(state, "loop_iteration", 0) + 1]_vars

\* a selection on its own with loop_iteration unset that left a batch queued
C4_Witness ==
    /\ pc = "returned"
    /\ last_tool = "process_batch_selection"
    /\ response.status = "batch_selected"
    /\ state["loop_iteration"] = 1
    /\ state["batches"] # <<>>

\* the four keys C5 names
FrameKeys == {"loop_iteration", "current_batch", "batches", "all_summaries"}

\* C5: called with an empty or missing queue, process_batch_selection sets
\* escalate, returns "no_more_batches" and leaves loop_iteration,
\* current_batch, the queue and the accumulator as they were (set or unset).
C5_EmptyQueueEscalates ==
    [][(SelectionStep /\ Get(state, "batches", <<>>) = <<>>) =>
          /\ escalate' = TRUE
          /\ response'.status = "no_more_batches"
          /\ raised' = "none"
          /\ \A k \in FrameKeys :
                /\ k \in DOMAIN state' <=> k \in DOMAIN state
                /\ k \in DOMAIN state => state'[k] = state[k]]_vars

\* a selection on its own that found no "batches" key and a stored counter
C5_Witness ==
    /\ pc = "returned"
    /\ last_tool = "process_batch_selection"
    /\ response.status = "no_more_batches"
    /\ escalate
    /\ "batches" \notin DOMAIN state
    /\ "loop_iteration" \in DOMAIN state
    /\ "all_summaries" \in DOMAIN state

\* the four agents batch_processing_loop runs
LoopAgents == {"batch_selector_agent", "file_reader_agent",
               "content_summarizer_agent", "update_summaries_agent"}

\* the Iteration Controller's terminal states: DONE is the loop ended with
\* every batch taken from the queue, ABORTED is the run ended by an exception
Done == loop_exit # "none" /\ state["batches"] = <<>>
Aborted == pc = "failed" /\ raised # "none"

\* C6: if the loop reaches its ceiling of 200 iterations while batches are
\* still queued, the run ends failed, with an error: it does not go on to
\* project summarisation and finalisation.
C6_CeilingWithQueuedBatchesAborts ==
    (loop_exit = "ceiling" /\ state["batches"] # <<>>) => Aborted

C8_ControllerReachesDoneOrAborted ==
    /\ (pc = "batch_processing_loop") ~> (Done \/ Aborted)
    /\ [](loop_exit = "escalate" => state["batches"] = <<>>)
    /\ [][(Done \/ Aborted) =>
            (pc' \notin LoopAgents /\ selected' = selected /\ merged' = merged)]_vars

\* C9: in a run whose loop ended in DONE every batch the scheduler created was
\* selected and merged exactly once, in the scheduler's order; at any time
\* the i-th selection is the i-th batch created.
C9_EveryBatchOnceInOrder ==
    /\ selected = SubSeq(created, 1, Len(selected))
    /\ merged = SubSeq(selected, 1, Len(merged))
    /\ Len(selected) <= Len(created)
    /\ Len(merged) <= Len(selected)
    /\ Done => (selected = created /\ merged = created)

\* a finished run of three batches
C9_Witness ==
    /\ pc = "end"
    /\ loop_exit = "escalate"
    /\ Len(created) = 3
    /\ merged = created

\* a step that is a call of update_summaries, by its agent or on its own
MergeStep ==
    /\ pc \in {"update_summaries_agent", "tool_call"}
    /\ last_tool' = "update_summaries"

\* the batch result update_summaries reads in state st
BatchResult(st) ==
    Get(Get(st, "batch_summaries", EmptyDict), "batch_summaries", EmptyDict)

\* C10: merging batch result R into accumulator A gives keys(A) \cup keys(R),
\* with R's value for every key of R and A's value for every other key, and
\* never an error; with disjoint keys the size is the sum of the sizes.
C10_MergeIsKeywiseUpsert ==
    [][MergeStep =>
          LET A == Get(state, "all_summaries", EmptyDict)
              R == BatchResult(state)
              A2 == state'["all_summaries"]
          IN  /\ raised' = "none"
              /\ response'.status = "success"
              /\ DOMAIN A2 = DOMAIN A \cup DOMAIN R
              /\ \A k \in DOMAIN R : A2[k] = R[k]
              /\ \A k \in DOMAIN A \ DOMAIN R : A2[k] = A[k]
              /\ DOMAIN A \cap DOMAIN R = {} =>
                    Cardinality(DOMAIN A2) = Cardinality(DOMAIN A) + Cardinality(DOMAIN R)]_vars

\* a merge on its own whose result has a key of the batch result and a key
\* the batch result does not have
C10_Witness ==
    /\ pc = "returned"
    /\ last_tool = "update_summaries"
    /\ BatchResult(state) # EmptyDict
    /\ DOMAIN state["all_summaries"] \ DOMAIN BatchResult(state) # {}
    /\ \E k \in DOMAIN BatchResult(state) : state["all_summaries"][k] = "s2"

\* the accumulator of state st: state["all_summaries"], empty when unset
Accumulator(st) == Get(st, "all_summaries", EmptyDict)

\* C11: no step of a run or call removes a key from the accumulator, and a
\* merge of an empty or missing batch result leaves the accumulator as it was.
C11_AccumulatorGrowsMonotonically ==
    [][/\ DOMAIN Accumulator(state) \subseteq DOMAIN Accumulator(state')
       /\ (MergeStep /\ BatchResult(state) = EmptyDict) =>
              /\ raised' = "none"
              /\ Accumulator(state') = Accumulator(state)]_vars

\* a merge on its own of a missing batch result into a non-empty accumulator
C11_Witness ==
    /\ pc = "returned"
    /\ last_tool = "update_summaries"
    /\ "batch_summaries" \notin DOMAIN state
    /\ Cardinality(DOMAIN Accumulator(state)) = MaxToolFiles

\* C12: in every state of a run the accumulator has at most as many entries
\* as the corpus has files and every key of it is a file of the corpus,
\* whatever mapping the service returned for each batch.
C12_AccumulatorWithinCorpus ==
    "files" \in DOMAIN state =>
        /\ DOMAIN Accumulator(state) \subseteq Range(state["files"])
        /\ Cardinality(DOMAIN Accumulator(state)) <= Len(state["files"])

\* a step that is a call of finalize_summaries, by its agent or on its own
FinalizeStep ==
    /\ pc \in {"final_summary_agent", "tool_call"}
    /\ last_tool' = "finalize_summaries"

\* the project summary finalize_summaries finds in state st, if any
ProjectSummary(st) ==
    Get(Get(st, "project_summary_raw", EmptyDict), "project_summary",
        "No project summary found.")

\* C13: finalize_summaries never raises and stores under
\* doc_summaries["summaries"] every entry of the accumulator (none when it is
\* empty or unset) and, under the separate key "project", the project
\* summary, or "No project summary found." when there is none.
C13_FinalizeKeepsSummariesAddsProject ==
    [][FinalizeStep =>
          /\ raised' = "none"
          /\ response'.status = "success"
          /\ "doc_summaries" \in DOMAIN state'
          /\ LET A == Accumulator(state)
                 S == state'["doc_summaries"]["summaries"]
             IN  /\ DOMAIN S = DOMAIN A \cup {PROJECT}
                 /\ PROJECT \notin DOMAIN A
                 /\ \A k \in DOMAIN A : S[k] = A[k]
                 /\ S[PROJECT] = ProjectSummary(state)
                 /\ ("project_summary_raw" \notin DOMAIN state
                        \/ "project_summary" \notin DOMAIN state["project_summary_raw"])
                       => S[PROJECT] = "No project summary found."]_vars

\* a call on its own with no accumulator and no project summary
C13_Witness ==
    /\ pc = "returned"
    /\ last_tool = "finalize_summaries"
    /\ "all_summaries" \notin DOMAIN state
    /\ "project_summary_raw" \notin DOMAIN state
    /\ state["doc_summaries"]["summaries"] = [k \in {PROJECT} |-> "No project summary found."]

\* the number of ResourceExhausted failures side_effect starts with
LeadingFailures ==
    Cardinality({k \in 1..Len(side_effect) :
                    \A j \in 1..k : side_effect[j] = "ResourceExhausted"})

\* a call of the wrapper that has ended, by a return or by an exception
WrapperEnded == last_tool = "wrapper" /\ pc \in {"returned", "failed"}

\* C14: a wrapped call that fails with ResourceExhausted k times, k < 5, and
\* then succeeds is invoked k + 1 times and its result is returned (once for
\* k = 0); one that fails with ResourceExhausted in each of the 5 attempts is
\* invoked 5 times and the wrapper raises ResourceExhausted.
C14_RetriesUntilSuccessOrFiveAttempts ==
    /\ call_count <= max_attempt_number
    /\ WrapperEnded =>
          LET k == LeadingFailures
          IN  /\ (k < max_attempt_number /\ side_effect[k + 1] = "success") =>
                    /\ pc = "returned"
                    /\ response = [result |-> "success"]
                    /\ raised = "none"
                    /\ call_count = k + 1
              /\ k >= max_attempt_number =>
                    /\ pc = "failed"
                    /\ raised = "ResourceExhausted"
                    /\ call_count = max_attempt_number

\* a call that returned after four failures, the most that are retried
C14_Witness ==
    /\ WrapperEnded
    /\ pc = "returned"
    /\ call_count = max_attempt_number
    /\ Len(slept) = max_attempt_number - 1

\* C15: a failure that is not a ResourceExhausted is not retried: the call
\* in which it occurs is the last one and the same exception is raised, with
\* no wait after it, also after earlier ResourceExhausted retries.
C15_OtherFailuresAreNotRetried ==
    /\ WrapperEnded =>
          LET k == LeadingFailures
          IN  (k < max_attempt_number /\ side_effect[k + 1] = "ValueError") =>
                  /\ pc = "failed"
                  /\ raised = "ValueError"
                  /\ call_count = k + 1
                  /\ Len(slept) = k
    /\ (last_tool = "wrapper" /\ pc = "wrapper") =>
          \A j \in 1..call_count : side_effect[j] = "ResourceExhausted"

\* a ValueError in the third call, after two retried ResourceExhausted
C15_Witness ==
    /\ WrapperEnded
    /\ raised = "ValueError"
    /\ call_count = 3
    /\ Len(slept) = 2

\* C16: the k-th wait of the wrapper (k = 0, 1, ..) is
\* min(d_0 * m ** k, d_max) and there are at most N attempts, d_0, m, d_max
\* and N being the configured BACKOFF_INIT_DELAY, BACKOFF_MULTIPLIER,
\* BACKOFF_MAX_DELAY and BACKOFF_ATTEMPTS (2, 2, 60 and 5 when unset).
C16_DelaysFollowConfiguredBackoff ==
    last_tool = "wrapper" =>
        /\ call_count <= backoff.backoff_attempts
        /\ \A k \in 0..(Len(slept) - 1) :
              slept[k + 1] = Min(backoff.backoff_init_delay * Pow(backoff.backoff_multiplier, k),
                                 backoff.backoff_max_delay)

\* a run ended by the ResourceExhausted of a batch's summarisation call
RetriesExhausted ==
    /\ pc = "failed"
    /\ raised = "ResourceExhausted"
    /\ last_tool = "content_summarizer_agent"

\* C17: a ResourceExhausted raised by a batch's summarisation call (its
\* retries exhausted) ends the run with that exception: the batch that failed
\* is the last one selected and is not merged, no agent takes a step after
\* it (no later batch is selected), and there is no project summary and no
\* doc_summaries.
C17_ExhaustedRetriesAbortTheRun ==
    [][/\ (pc = "content_summarizer_agent" /\ raised' = "ResourceExhausted") =>
              /\ RetriesExhausted'
              /\ state' = state
              /\ selected' = selected /\ merged' = merged
              /\ selected # <<>>
              /\ selected[Len(selected)] = state["current_batch"]
              /\ merged = SubSeq(selected, 1, Len(selected) - 1)
              /\ loop_exit' = "none"
              /\ "project_summary_raw" \notin DOMAIN state'
              /\ "doc_summaries" \notin DOMAIN state'
       /\ ~RetriesExhausted]_vars

\* the second batch failed: one batch is merged and one is still queued
C17_Witness ==
    /\ RetriesExhausted
    /\ Len(merged) = 1
    /\ Accumulator(state) # EmptyDict
    /\ state["batches"] # <<>>

\* a call of clean_json_callback that has returned
CallbackReturned == pc = "returned" /\ last_tool = "clean_json_callback"

\* the text of the first part of a response that has one
TextOf(resp) == resp.content.parts[1].text

\* the position of the newline that ends a leading marker line of text: a
\* fence, a language tag of word characters (or none) and a newline; 0 when
\* text does not start with such a line
MarkerLineEnd(text) ==
    IF Len(text) >= 1 /\ text[1] = FENCE
          /\ \E n \in 2..Len(text) : is_space(text[n]) /\ \A j \in 2..(n - 1) : is_word(text[j])
    THEN CHOOSE n \in 2..Len(text) : is_space(text[n]) /\ \A j \in 2..(n - 1) : is_word(text[j])
    ELSE 0

\* text is one fenced block: a leading marker line, content without a fence,
\* and a trailing marker line (a newline and a fence)
IsFencedBlock(text) ==
    /\ MarkerLineEnd(text) # 0
    /\ Len(text) >= MarkerLineEnd(text) + 1
    /\ text[Len(text)] = FENCE
    /\ is_space(text[Len(text) - 1])
    /\ \A j \in 2..(Len(text) - 1) : text[j] # FENCE

\* the content of a fenced block, between its two marker lines
FencedContent(text) ==
    IF MarkerLineEnd(text) + 1 <= Len(text) - 2
    THEN SubSeq(text, MarkerLineEnd(text) + 1, Len(text) - 2)
    ELSE <<>>

C19_NothingToCleanReturnsResponse ==
    (CallbackReturned
       /\ \/ ~has_text(llm_response)
          \/ \A i \in 1..Len(TextOf(llm_response)) : TextOf(llm_response)[i] # FENCE) =>
        new_response = llm_response

\* a text without a fence that begins and ends with whitespace
C19_Witness ==
    /\ CallbackReturned
    /\ has_text(llm_response)
    /\ TextOf(llm_response) = <<"\n", "{", "j", "\n">>
    /\ new_response = llm_response

\* out is text, or text without a leading marker line (a fence, word
\* characters, whitespace) and a trailing one (whitespace, the last fence,
\* whitespace), and without the whitespace around what is left
RemovesOnlyWrapper(text, out) ==
    \/ out = text
    \/ /\ Len(text) >= 2
       /\ text[1] = FENCE
       /\ \E w \in 1..Len(text), a \in 1..Len(text), b \in 2..Len(text) :
             /\ w <= a /\ a < b
             /\ \A j \in 2..w : is_word(text[j])
             /\ \A j \in (w + 1)..a : is_space(text[j])
             /\ text[b] = FENCE
             /\ \A j \in (b + 1)..Len(text) : is_space(text[j])
             /\ out = strip(SubSeq(text, a + 1, b - 1))

\* C20: for every text, the text clean_json_callback returns is the text it
\* was given, or that text without one leading and one trailing marker line:
\* nothing before the first fence, after the last fence or after a fence
\* inside the payload is lost.
C20_OnlyTheWrappingFenceIsRemoved ==
    (CallbackReturned /\ has_text(llm_response)) =>
        RemovesOnlyWrapper(TextOf(llm_response), TextOf(new_response))

-----------------------------------------------------------------------------
\* a run ended by the ValidationError of a batch's summarisation call: the
\* answer, fences stripped, does not parse against output_schema
MalformedOutput ==
    /\ pc = "failed"
    /\ raised = "ValidationError"
    /\ last_tool = "content_summarizer_agent"

\* C21: an answer to a batch's summarisation call that fails the output
\* schema ends the run with the validation error: the session state is left
\* as it was (nothing is stored under batch_summaries and nothing is merged
\* for the batch, which stays the last one selected), and after the failure
\* no agent takes a step, so the call is not issued again.
C21_MalformedOutputAbortsWithoutRetry ==
    [][/\ (pc = "content_summarizer_agent" /\ raised' = "ValidationError") =>
              /\ MalformedOutput'
              /\ state' = state
              /\ selected' = selected /\ merged' = merged
              /\ selected # <<>>
              /\ merged = SubSeq(selected, 1, Len(selected) - 1)
              /\ Accumulator(state') = Accumulator(state)
       /\ ~MalformedOutput]_vars

\* the first batch's answer was malformed: nothing is merged, the accumulator
\* is empty and a batch is still queued
C21_Witness ==
    /\ MalformedOutput
    /\ Len(selected) = 1
    /\ merged = <<>>
    /\ Accumulator(state) = EmptyDict
    /\ state["batches"] # <<>>

-----------------------------------------------------------------------------
\* the text read_files stores for a file it could not read: "Error: ..."
StartsWithError(text) ==
    text \in {"Error: Could not read file.", "Error: An unexpected error occurred."}

\* the paths read_files was asked to read
FilesToRead(st) == Range(Get(st, "current_batch", Get(st, "files", <<>>)))

\* C22: read_files never raises: when it has returned, files_content has an
\* entry for every path it was given, a text starting with "Error:" for each
\* path whose read raised and the content for each other, and the status is
\* "warnings" if some read raised and "success" if none did.
C22_ReadFailuresBecomePlaceholders ==
    last_tool = "read_files" =>
        /\ raised = "none"
        /\ "files_content" \in DOMAIN state
        /\ DOMAIN opened = FilesToRead(state)
        /\ DOMAIN state["files_content"] = FilesToRead(state)
        /\ \A f \in FilesToRead(state) :
              /\ opened[f] # "ok" => StartsWithError(state["files_content"][f])
              /\ opened[f] = "ok" => state["files_content"][f] = "content"
        /\ response.status = IF \E f \in FilesToRead(state) : opened[f] # "ok"
                             THEN "warnings" ELSE "success"

\* a batch of two files, one read and one failing with an unnamed exception
C22_Witness ==
    /\ last_tool = "read_files"
    /\ pc = "content_summarizer_agent"
    /\ \E f, g \in FilesToRead(state) :
          /\ opened[f] = "other_error"
          /\ opened[g] = "ok"
          /\ StartsWithError(state["files_content"][f])
          /\ state["files_content"][g] = "content"
    /\ response.status = "warnings"

-----------------------------------------------------------------------------
\* the batch the iteration under way is about: the last one selected, all
\* batches before it merged and itself not
InIteration ==
    /\ selected # <<>>
    /\ "current_batch" \in DOMAIN state
    /\ state["current_batch"] = selected[Len(selected)]
    /\ merged = SubSeq(selected, 1, Len(selected) - 1)

\* C23: the steps of an iteration come in the order select, read, summarise,
\* merge.  file_reader_agent runs right after a batch was selected; the
\* summarisation call is made right after read_files returned, with an entry
\* in files_content for every file of the batch (its content or its
\* placeholder); the merge is made right after the summarisation call for
\* the batch returned its answer.
C23_SelectReadSummariseMerge ==
    /\ pc = "file_reader_agent" =>
          /\ last_tool = "process_batch_selection"
          /\ response.status = "batch_selected"
          /\ InIteration
    /\ pc = "content_summarizer_agent" =>
          /\ last_tool = "read_files"
          /\ InIteration
          /\ "files_content" \in DOMAIN state
          /\ DOMAIN state["files_content"] = Range(state["current_batch"])
          /\ DOMAIN opened = Range(state["current_batch"])
    /\ pc = "update_summaries_agent" =>
          /\ last_tool = "content_summarizer_agent"
          /\ raised = "none"
          /\ InIteration
          /\ "batch_summaries" \in DOMAIN state
          /\ DOMAIN state["files_content"] = Range(state["current_batch"])

\* the second iteration, about to merge: its batch was selected, read and
\* summarised after the first batch was merged
C23_Witness ==
    /\ pc = "update_summaries_agent"
    /\ last_tool = "content_summarizer_agent"
    /\ Len(selected) = 2
    /\ Len(merged) = 1
    /\ DOMAIN state["files_content"] = Range(selected[2])

-----------------------------------------------------------------------------
\* C24: batches are processed one at a time and at most one request to the
\* service is outstanding.  The batches merged are those selected, in order,
\* but for at most one, the batch in processing; never are two requests
\* unanswered (so an attempt is sent again only after it has failed), and a
\* request outstanding for a batch is that of the one batch in processing.
C24_OneBatchAndOneCallAtATime ==
    /\ outstanding \in {0, 1}
    /\ Len(merged) <= Len(selected)
    /\ Len(selected) <= Len(merged) + 1
    /\ merged = SubSeq(selected, 1, Len(merged))
    /\ outstanding = 1 =>
          /\ pc \in ModelAgents
          /\ pc = "content_summarizer_agent" => InIteration

\* the second attempt of the second batch's request is outstanding while a
\* third batch is queued
C24_Witness ==
    /\ pc = "content_summarizer_agent"
    /\ outstanding = 1
    /\ http_attempt = 2
    /\ Len(selected) = 2
    /\ Len(merged) = 1
    /\ state["batches"] # <<>>

-----------------------------------------------------------------------------
\* the agents of single_batch_processor and the selector before them
IterationAgents ==
    {"batch_selector_agent", "file_reader_agent", "content_summarizer_agent",
     "update_summaries_agent"}

\* C25: the loop stops only at batch selection.  When the loop ends, every
\* batch selected has been merged: a batch in processing is read, summarised
\* and merged first.  The selector's exit signal ends the loop at once, with
\* nothing read, selected or merged by that step, and once the loop has ended
\* no agent of an iteration runs again and nothing more is selected or merged.
C25_HaltTakesEffectOnlyAtSelection ==
    [][/\ (loop_exit = "none" /\ loop_exit' # "none") =>
              /\ pc \in {"batch_selector_agent", "batch_processing_loop"}
              /\ merged = selected
       /\ (pc = "batch_selector_agent" /\ escalate') =>
              /\ loop_exit' = "escalate"
              /\ pc' = "project_summariser_agent"
              /\ state' = state
              /\ <<selected', merged', opened'>> = <<selected, merged, opened>>
       /\ (pc \in IterationAgents /\ escalate' = escalate /\ raised' = "none") =>
              loop_exit' = "none"
       /\ loop_exit # "none" =>
              /\ pc' \notin IterationAgents
              /\ <<selected', merged'>> = <<selected, merged>>]_vars

\* the loop ended by the exit signal after two batches: the files read last
\* are those of the second batch, read once, in its own iteration
C25_Witness ==
    /\ loop_exit = "escalate"
    /\ pc = "project_summariser_agent"
    /\ last_tool = "process_batch_selection"
    /\ Len(merged) = 2
    /\ merged = selected
    /\ DOMAIN opened = Range(merged[2])

-----------------------------------------------------------------------------
\* C26: project summarisation starts only when all batches are exhausted,
\* and finalisation only when the project summary has been produced.  While
\* project_summariser_agent or final_summary_agent is the agent to run, the
\* queue is empty and every batch created has been selected and merged; when
\* final_summary_agent is the agent to run, project_summary_raw is set.
C26_ProjectSummaryAfterAllBatches ==
    /\ pc \in {"project_summariser_agent", "final_summary_agent"} =>
          /\ Get(state, "batches", <<>>) = <<>>
          /\ merged = selected
          /\ selected = created
    /\ pc = "final_summary_agent" =>
          /\ last_tool = "project_summariser_agent"
          /\ "project_summary_raw" \in DOMAIN state

-----------------------------------------------------------------------------
\* the section the claim gives file f for maximum depth D: the root joined
\* with the first min(D, depth) components of the file's directory
SectionOf(f, D) ==
    LET directory == dirname(RepoFiles[f])
    IN  RepoPath \o SubSeq(directory, 1, Min(D, Len(directory)))

\* the mapping call has been made
MapCalled == last_tool = "_map_files_to_effective_sections"

\* C27: _map_files_to_effective_sections, whatever max_depth D it is given,
\* returns a mapping with one section for every file: the root for a file in
\* the root, otherwise the root joined with the first min(D, depth)
\* components of the file's directory, so never more than D components below
\* the root.
C27_EveryFileMapsToItsSection ==
    MapCalled =>
        /\ raised = "none"
        /\ DOMAIN file_to_effective_section_dir = Range(state["files"])
        /\ \A f \in Range(state["files"]) :
              /\ file_to_effective_section_dir[f] = SectionOf(f, max_depth)
              /\ Len(file_to_effective_section_dir[f]) <= Len(RepoPath) + max_depth

\* C28: called with max_depth 0, _map_files_to_effective_sections returns a
\* mapping that gives every file, at whatever depth it lies, the root.
C28_DepthZeroMapsEveryFileToRoot ==
    (MapCalled /\ max_depth = 0) =>
        /\ raised = "none"
        /\ DOMAIN file_to_effective_section_dir = Range(state["files"])
        /\ \A f \in Range(state["files"]) : file_to_effective_section_dir[f] = RepoPath

-----------------------------------------------------------------------------
\* generate_llms_txt has returned: llms_txt is the rendered document
Rendered == last_tool = "generate_llms_txt" /\ pc = "returned"

\* the positions of the lines of one kind
LinesOf(kind) == {i \in 1..Len(llms_txt) : llms_txt[i].kind = kind}

\* the files of S, listed in the order of their paths
InPathOrder(S) ==
    LET RECURSIVE listed(_)
        listed(T) ==
            IF T = {} THEN <<>>
            ELSE LET f == CHOOSE x \in T :
                              \A y \in T \ {x} : PathLess(FilePath(x), FilePath(y))
                 IN  <<f>> \o listed(T \ {f})
    IN  listed(S)

\* C29: in the rendered document the section headings come in the order of
\* their section keys, one heading for each distinct key of the files; every
\* file line stands in the section of the last heading before it, and the
\* file lines of a section come in the order of the files' full paths.  The
\* sections written are those written for the same files listed in path
\* order: the order of the discovered list has no influence.
C29_SectionsAndFilesInPathOrder ==
    Rendered =>
        /\ \A i, j \in LinesOf("heading") :
              i < j => PathLess(llms_txt[i].section, llms_txt[j].section)
        /\ {llms_txt[i].section : i \in LinesOf("heading")}
               = {SectionOf(f, MAX_SECTION_DEPTH) : f \in Range(state["files"])}
        /\ \A i \in LinesOf("file") :
              \E h \in LinesOf("heading") :
                  /\ h < i
                  /\ llms_txt[h].section = llms_txt[i].section
                  /\ \A k \in LinesOf("heading") : ~(h < k /\ k < i)
        /\ \A i, j \in LinesOf("file") :
              (i < j /\ llms_txt[i].section = llms_txt[j].section) =>
                  PathLess(FilePath(llms_txt[i].file), FilePath(llms_txt[j].file))
        /\ LET listed == [state EXCEPT !["files"] = InPathOrder(Range(state["files"]))]
               again == generate_llms_txt(RepoPath, Ctx(listed, FALSE)).written
           IN  SubSeq(llms_txt, 3, Len(llms_txt)) = SubSeq(again, 3, Len(again))

\* discovered as docs/new.md, docs/guide.md, api/index.md: rendered as the
\* section of api, then that of docs with guide.md before new.md
C29_Witness ==
    /\ Rendered
    /\ state["files"] = <<3, 2, 6>>
    /\ Len(llms_txt) = 9
    /\ llms_txt[3].section = <<"repo", "api">>
    /\ llms_txt[6].section = <<"repo", "docs">>
    /\ llms_txt[7].file = 2
    /\ llms_txt[8].file = 3

-----------------------------------------------------------------------------
\* the summaries generate_llms_txt is given, the "project" entry included
GivenSummaries(st) ==
    Get(Get(st, "doc_summaries", EmptyDict), "summaries", EmptyDict)

\* C30: generate_llms_txt does not fail, and every discovered file has
\* exactly one file line in the document, in the section of its section key,
\* whether the summaries have an entry for it or not; no line is written
\* for anything but a discovered file.
C30_EveryFileHasOneLineInItsSection ==
    last_tool = "generate_llms_txt" =>
        /\ raised = "none"
        /\ response.status = "success"
        /\ \A f \in Range(state["files"]) :
              /\ Cardinality({i \in LinesOf("file") : llms_txt[i].file = f}) = 1
              /\ \A i \in LinesOf("file") :
                    llms_txt[i].file = f =>
                        llms_txt[i].section = SectionOf(f, MAX_SECTION_DEPTH)
        /\ {llms_txt[i].file : i \in LinesOf("file")} = Range(state["files"])

\* three files rendered, of which one has a summary and two have none
C30_Witness ==
    /\ Rendered
    /\ Len(state["files"]) = 3
    /\ Cardinality(LinesOf("file")) = 3
    /\ Cardinality(DOMAIN GivenSummaries(state) \cap Range(state["files"])) = 1
    /\ \E i \in LinesOf("file") : llms_txt[i].file \notin DOMAIN GivenSummaries(state)

-----------------------------------------------------------------------------
\* C31: the line written for a file carries the summary the given summaries
\* have for the file, and "No summary" exactly when they have none; the
\* "project" entry gets no file line, and its text is on no file line.
C31_LineCarriesTheFilesSummary ==
    [][pc = "llms_txt_call" =>
          \A i \in 1..Len(llms_txt') :
              llms_txt'[i].kind = "file" =>
                  LET f == llms_txt'[i].file
                      given == GivenSummaries(state)
                  IN  /\ f # PROJECT
                      /\ f \in Range(state["files"])
                      /\ f \in DOMAIN given => llms_txt'[i].text = given[f]
                      /\ llms_txt'[i].text = "No summary" <=> f \notin DOMAIN given
                      /\ PROJECT \in DOMAIN given => llms_txt'[i].text # given[PROJECT]]_vars

\* a document with the project summary as its overview, a line with a
\* file's summary and a line with the placeholder
C31_Witness ==
    /\ Rendered
    /\ llms_txt[2].text = "p1"
    /\ \E i, j \in LinesOf("file") :
          /\ llms_txt[i].text = SummaryFor(llms_txt[i].file)
          /\ llms_txt[j].text = "No summary"
          /\ llms_txt[i].file \in DOMAIN GivenSummaries(state)
          /\ llms_txt[j].file \notin DOMAIN GivenSummaries(state)

\* the step is a call of setup_config
SetupConfigCalled == pc = "config" /\ config_result'.call = "setup_config"

\* C32: while the cached configuration is valid, a call of setup_config
\* returns the cached Config object, unchanged, without reading the
\* environment and without calling google.auth.default; once a first load
\* has succeeded (with its one call of google.auth.default), no call of
\* setup_config or invalidate calls google.auth.default again.
C32_ValidConfigIsServedFromTheCache ==
    [][pc = "config" =>
          /\ SetupConfigCalled /\ current_config # None /\ current_config.valid =>
                 /\ config_result'.raised = "none"
                 /\ config_result'.value = current_config.id
                 /\ current_config' = current_config
                 /\ ~config_result'.environ_read
                 /\ ~config_result'.auth_called
          /\ current_config = None /\ current_config' # None =>
                 auth_default_calls' = auth_default_calls + 1
          /\ current_config # None =>
                 /\ current_config' # None
                 /\ auth_default_calls' = auth_default_calls]_vars

\* a call served from the cache although the environment no longer has the
\* values loaded, after an invalidation and a reload; google.auth.default
\* was called once
C32_Witness ==
    /\ pc = "config"
    /\ config_result.call = "setup_config"
    /\ config_result.raised = "none"
    /\ ~config_result.environ_read
    /\ current_config.valid
    /\ current_config.model = "gemini-pro"
    /\ "MODEL" \notin DOMAIN environ
    /\ auth_default_calls = 1

\* C33: a first load (no Config cached yet) either returns a Config with a
\* project id or raises; when google.auth.default gives no project id it
\* raises ConfigError; a load that raises leaves current_config unset, and a
\* call with current_config unset always attempts the load, reading the
\* environment again, rather than returning anything cached.
C33_FailedFirstLoadCachesNothing ==
    [][SetupConfigCalled /\ current_config = None =>
          /\ config_result'.environ_read
          /\ config_result'.raised \in {"none", "ConfigError", "ValueError"}
          /\ config_result'.raised = "ConfigError" <=>
                 config_result'.auth_called /\ current_config' = None
          /\ config_result'.raised # "none" =>
                 /\ current_config' = None
                 /\ config_result'.value = 0
          /\ config_result'.raised = "none" =>
                 /\ config_result'.auth_called
                 /\ current_config'.valid
                 /\ current_config'.project_id # ""
                 /\ config_result'.value = current_config'.id]_vars

\* the load has failed for want of a project id for the second time:
\* nothing is cached and google.auth.default was asked both times
C33_Witness ==
    /\ pc = "config"
    /\ config_result.call = "setup_config"
    /\ config_result.raised = "ConfigError"
    /\ current_config = None
    /\ auth_default_calls = 2

\* C40: a call of setup_config on an invalidated Config reads the
\* environment, stores in the same Config object what each variable now
\* gives (its value, or the default when it is unset), sets valid back to
\* True and returns that object, with project_id and agent_name as they
\* were and without asking google.auth.default; the one way it does not is
\* that a numeric variable holds text int() rejects: then ValueError is
\* raised and the Config stays as it was, invalid.  A call while the Config
\* is valid returns the values it holds, whatever the environment now says.
C40_InvalidatedConfigIsReloadedInPlace ==
    [][SetupConfigCalled /\ current_config # None =>
          /\ ~current_config.valid =>
                 LET batch == int(Get(environ, "BATCH_SIZE", "10"))
                 IN  /\ config_result'.environ_read
                     /\ ~config_result'.auth_called
                     /\ config_result'.raised = batch.raised
                     /\ batch.raised = "none" =>
                            /\ current_config'.valid
                            /\ current_config'.model = Get(environ, "MODEL", DEFAULT_MODEL)
                            /\ current_config'.batch_size = batch.value
                            /\ current_config'.id = current_config.id
                            /\ config_result'.value = current_config.id
                            /\ current_config'.project_id = current_config.project_id
                            /\ current_config'.agent_name = current_config.agent_name
                     /\ batch.raised # "none" => current_config' = current_config
          /\ current_config.valid =>
                 /\ config_result'.value = current_config.id
                 /\ current_config'.model = current_config.model
                 /\ current_config'.batch_size = current_config.batch_size
                 /\ current_config'.valid]_vars

\* an invalidated Config has been reloaded from an environment that had
\* changed since the first load: it holds the new values, and the
\* agent_name of the first load although AGENT_NAME is set by now
C40_Witness ==
    /\ pc = "config"
    /\ config_result.call = "setup_config"
    /\ config_result.raised = "none"
    /\ config_result.environ_read
    /\ ~config_result.auth_called
    /\ current_config.valid
    /\ current_config.model = "gemini-pro"
    /\ current_config.batch_size = 3
    /\ current_config.agent_name = DEFAULT_AGENT_NAME
    /\ "AGENT_NAME" \in DOMAIN environ
    /\ auth_default_calls = 1

\* the run is in or past the batch loop: the scheduler has queued the batches
InBatchLoop ==
    /\ pc \in {"batch_processing_loop", "project_summariser_agent",
               "final_summary_agent", "end", "failed"} \cup IterationAgents
    /\ "batches" \in DOMAIN state

\* C34: in every state of the batch loop loop_iteration (0 while unset) is
\* the number of batches selected so far, loop_iteration plus the number of
\* batches still queued is the number of batches the scheduler created, and
\* no step makes the queue longer.
C34_CounterAndQueueAccountForEveryBatch ==
    [][InBatchLoop' =>
          /\ Get(state', "loop_iteration", 0) = Len(selected')
          /\ Get(state', "loop_iteration", 0) + Len(state'["batches"]) = Len(created')
          /\ InBatchLoop => Len(state'["batches"]) <= Len(state["batches"])]_vars

\* the second of three batches is being processed, the third is queued
C34_Witness ==
    /\ InBatchLoop
    /\ pc = "content_summarizer_agent"
    /\ Len(created) = 3
    /\ state["loop_iteration"] = 2
    /\ Len(state["batches"]) = 1

\* a step in which read_files is called: by file_reader_agent, on its own,
\* or by project_summariser_agent
ReadStep ==
    \/ pc \in {"file_reader_agent", "tool_call"} /\ last_tool' = "read_files"
    \/ /\ pc = "project_summariser_agent"
       /\ pc' = "final_summary_agent"
       /\ response'.status \in {"success", "warnings"}

\* C35: when read_files has returned, the keys of files_content are exactly
\* the files of the current batch, whatever files_content held before the
\* call, and each entry is what this call read (the content or the
\* placeholder), not an entry left by an earlier call; so at a summarisation
\* call files_content has no entry for a file of a batch processed before.
C35_FilesContentIsResetForEachBatch ==
    [][/\ (ReadStep /\ "current_batch" \in DOMAIN state) =>
              /\ "files_content" \in DOMAIN state'
              /\ DOMAIN state'["files_content"] = Range(state["current_batch"])
              /\ \A f \in Range(state["current_batch"]) :
                    state'["files_content"][f] = FileText(opened'[f])
       /\ pc' = "content_summarizer_agent" =>
              \A i \in 1..Len(merged') :
                  Range(merged'[i]) \cap DOMAIN state'["files_content"] = {}]_vars

\* the second batch has been read: files_content, which held the first
\* batch's file when read_files was called, holds the second batch's only
C35_Witness ==
    /\ pc = "content_summarizer_agent"
    /\ last_tool = "read_files"
    /\ Len(merged) = 1
    /\ merged[1] # <<>>
    /\ "all_summaries" \in DOMAIN state
    /\ DOMAIN state["files_content"] = Range(state["current_batch"])
    /\ Range(merged[1]) \cap DOMAIN state["files_content"] = {}

\* C36: when the mapping returned for a batch has no entry for a file of the
\* batch, the merge neither raises nor fails: the accumulator has an entry
\* for that file afterwards only if it had it before, unchanged, every entry
\* of the mapping is merged, and control goes back to the loop for the next
\* selection with the batch counted as merged.
C36_OmittedFileDoesNotFailTheBatch ==
    [][(/\ pc = "update_summaries_agent"
        /\ Range(state["current_batch"]) \ DOMAIN BatchResult(state) # {}) =>
          LET A == Get(state, "all_summaries", EmptyDict)
              R == BatchResult(state)
              A2 == state'["all_summaries"]
          IN  /\ raised' = "none"
              /\ response'.status = "success"
              /\ \A f \in Range(state["current_batch"]) \ DOMAIN R :
                    /\ f \in DOMAIN A2 <=> f \in DOMAIN A
                    /\ f \in DOMAIN A => A2[f] = A[f]
              /\ \A k \in DOMAIN R : A2[k] = R[k]
              /\ pc' = "batch_processing_loop"
              /\ loop_exit' = "none"
              /\ times_looped' = times_looped + 1
              /\ merged' = Append(merged, state["current_batch"])]_vars

\* the first batch's result had an entry for one of its two files only: the
\* other has no summary, and the second batch has been selected
C36_Witness ==
    /\ pc = "file_reader_agent"
    /\ Len(selected) = 2
    /\ Len(merged) = 1
    /\ \E f, g \in Range(merged[1]) :
          /\ f \in DOMAIN state["all_summaries"]
          /\ g \notin DOMAIN state["all_summaries"]

\* the step leaves key k of the session state as it is: absent, or present
\* with the same value
KeyUnchanged(k) ==
    /\ k \in DOMAIN state' <=> k \in DOMAIN state
    /\ k \in DOMAIN state => state'[k] = state[k]

\* C37: no step changes the discovered file list, and the accumulator is
\* changed by update_summaries only: every step that is not a call of
\* update_summaries (process_batch_selection, read_files, the summarisation
\* calls, finalize_summaries, generate_llms_txt among them) leaves
\* all_summaries as it is, and a merge that finds no accumulator creates it
\* empty and merges the batch result into that.
C37_AccumulatorAndCorpusHaveOneWriter ==
    [][/\ KeyUnchanged("files")
       /\ ~KeyUnchanged("all_summaries") => MergeStep
       /\ (MergeStep /\ "all_summaries" \notin DOMAIN state) =>
              state'["all_summaries"] = Update(EmptyDict, BatchResult(state))]_vars

\* a run has ended: the document's summaries have the project entry next to
\* those of two batches, the accumulator has the two batches' only
C37_Witness ==
    /\ pc = "end"
    /\ last_tool = "finalize_summaries"
    /\ Len(merged) = 2
    /\ state["files"] = Flatten(created)
    /\ Cardinality(DOMAIN state["all_summaries"]) = 2
    /\ PROJECT \notin DOMAIN state["all_summaries"]
    /\ DOMAIN state["doc_summaries"]["summaries"] = DOMAIN state["all_summaries"] \cup {PROJECT}

-----------------------------------------------------------------------------
\* C38: generate_llms_txt leaves the doc_summaries of the session state as
\* they are, the "project" entry included, and a second call on the state
\* the first call left writes the same document as the first.
C38_RenderingTwiceGivesTheSameDocument ==
    [][/\ (pc \in {"llms_txt_call", "returned"} /\ last_tool' = "generate_llms_txt") =>
              KeyUnchanged("doc_summaries")
       /\ (pc = "returned" /\ pc' = "returned_again") => llms_txt' = llms_txt]_vars

-----------------------------------------------------------------------------
\* C39: for the corpus README.md, docs/guide.md, docs/new.md,
\* docs/api/index.md, docs/api/v1/intro.md, with a summary for every file
\* but docs/new.md, the document is the title, the overview, and the three
\* sections Home, Docs and Docs Api in that order, each a heading, its file
\* lines and a blank line: README.md in Home; guide.md, then new.md with
\* "No summary", in Docs; index.md, then intro.md, in Docs Api.
C39_TestCorpusRendersThreeSections ==
    (/\ Rendered
     /\ state["files"] = TestCorpus
     /\ DOMAIN GivenSummaries(state) \cap Range(TestCorpus) = {1, 2, 4, 5}) =>
        /\ raised = "none"
        /\ [i \in 1..Len(llms_txt) |-> llms_txt[i].kind]
               = <<"title", "overview",
                   "heading", "file", "blank",
                   "heading", "file", "file", "blank",
                   "heading", "file", "file", "blank">>
        /\ [i \in 1..Len(llms_txt) |-> llms_txt[i].file]
               = <<0, 0, 0, 1, 0, 0, 2, 3, 0, 0, 4, 5, 0>>
        /\ llms_txt[3].name = <<"Home">>
        /\ llms_txt[6].name = <<"Docs">>
        /\ llms_txt[10].name = <<"Docs", "Api">>
        /\ llms_txt[7].name = <<"guide.md">>
        /\ llms_txt[8].name = <<"new.md">>
        /\ llms_txt[8].text = "No summary"
        /\ llms_txt[12].name = <<"intro.md">>
        /\ llms_txt[12].link = <<"docs", "api", "v1", "intro.md">>
        /\ llms_txt[12].section = <<"repo", "docs", "api">>
        /\ \A i \in {4, 7, 11, 12} : llms_txt[i].text = SummaryFor(llms_txt[i].file)

\* the test's document: thirteen lines, the project summary as overview
C39_Witness ==
    /\ Rendered
    /\ state["files"] = TestCorpus
    /\ DOMAIN GivenSummaries(state) \cap Range(TestCorpus) = {1, 2, 4, 5}
    /\ Len(llms_txt) = 13
    /\ llms_txt[2].text = "p1"
    /\ llms_txt[10].name = <<"Docs", "Api">>

====
